---- MODULE Spec2Model ----
(***************************************************************************)
(* A model of tui.h: the render pipeline (double buffer, diff flush), the  *)
(* input decoder (ring buffer, escape-sequence parser) and the widget      *)
(* event router.  Enumerations are modelled by the strings of their C      *)
(* names without the TUI_ prefix; bytes and code points are integers.      *)
(***************************************************************************)
EXTENDS Integers, Sequences, FiniteSets, TLC

VARIABLES
    ctx,                    \* struct tui_context
    tty_in,                 \* bytes the terminal has sent that read() has not returned yet
    tty_size,               \* the size TIOCGWINSZ reports: <<cols, rows>>
    tui_sigwinch_received,  \* the resize latch set by the signal handler
    term,                   \* the terminal's screen: what the emitted output made it show
    out,                    \* the sequences written by the last tui_end_frame
    events,                 \* the events tui_poll_event has returned, in order
    fed,                    \* every byte handed to the tty so far
    lastPoll,               \* what the last tui_poll_event saw and did
    chosen,                 \* the sequence a canonical-sequence run was started with
    hist,                   \* observations of the frame loop
    widgets,                \* the tui_widget objects, by identity
    wm,                     \* struct tui_widget_manager
    route                   \* the handler calls of the last tui_wm_route_event

vars == <<ctx, tty_in, tty_size, tui_sigwinch_received, term, out, events, fed,
          lastPoll, chosen, hist, widgets, wm, route>>

(***************************************************************************)
(* Bounds of the model                                                     *)
(***************************************************************************)
MaxW == 3           \* widest terminal
MaxH == 2           \* tallest terminal
MaxFed == 3         \* bytes fed to the tty after the first chunk
MaxCoord == 2       \* largest Px, Py of a generated mouse report

(***************************************************************************)
(* Program constants                                                       *)
(***************************************************************************)
TUI_INPUT_BUFFER_SIZE == 64
TUI_MAX_WIDTH == 512
TUI_MAX_HEIGHT == 256
\* a uint32_t is modelled by the int32_t of the same bits: 0x80000000
TUI_COLOR_DEFAULT == -2147483647 - 1
\* 0xFFFFFFFF, the value tui_end_frame gives a colour it has not emitted yet
COLOR_UNKNOWN == -1

\* f(e), with e evaluated once
Let(e, f(_)) == CHOOSE y \in {f(x) : x \in {e}} : TRUE

Min(a, b) == IF a < b THEN a ELSE b
Max(a, b) == IF a > b THEN a ELSE b

\* bit k of n (n >= 0)
Bit(n, k) == (n \div (2 ^ k)) % 2

\* n & mask, for 0 <= n, mask < 256
BitAnd(n, mask) ==
    LET S(k) == IF Bit(n, k) = 1 /\ Bit(mask, k) = 1 THEN 2 ^ k ELSE 0
    IN  S(0) + S(1) + S(2) + S(3) + S(4) + S(5) + S(6) + S(7)

(***************************************************************************)
(* Cells and buffers                                                       *)
(***************************************************************************)
tui_make_empty_cell ==
    [codepoint |-> 32, fg |-> TUI_COLOR_DEFAULT, bg |-> TUI_COLOR_DEFAULT,
     underline_color |-> TUI_COLOR_DEFAULT, style |-> 0]

\* the cells of a buffer: the model keeps MaxW x MaxH of the 512 x 256
Grid == (0 .. MaxW - 1) \X (0 .. MaxH - 1)

\* tui_clear_buffer(buffer, TUI_MAX_WIDTH, TUI_MAX_HEIGHT)
tui_clear_buffer == [p \in Grid |-> tui_make_empty_cell]

\* tui_cell_equal that compares the glyph only
tui_cell_equal_glyph(a, b) == a.codepoint = b.codepoint

\* tui_cell_equal that compares the addresses of the two cells
tui_cell_equal_address(a, b) == FALSE

tui_cell_equal(a, b) ==
    /\ a.codepoint = b.codepoint
    /\ a.fg = b.fg
    /\ a.bg = b.bg
    /\ a.underline_color = b.underline_color
    /\ a.style = b.style

(***************************************************************************)
(* Context                                                                 *)
(***************************************************************************)
tui_get_terminal_size(c, size) ==
    LET w == IF size[1] > 0 /\ size[2] > 0 THEN size[1] ELSE 80
        h == IF size[1] > 0 /\ size[2] > 0 THEN size[2] ELSE 24
    IN  [c EXCEPT !.width = Min(w, TUI_MAX_WIDTH), !.height = Min(h, TUI_MAX_HEIGHT)]

\* the context tui_create returns on a terminal of the given size
tui_create(size) ==
    tui_get_terminal_size(
        [width |-> 0, height |-> 0,
         front_buffer |-> tui_clear_buffer,
         back_buffer |-> tui_clear_buffer,
         current_fg |-> TUI_COLOR_DEFAULT,
         current_bg |-> TUI_COLOR_DEFAULT,
         current_style |-> 0,
         current_underline_color |-> TUI_COLOR_DEFAULT,
         input_buffer |-> [i \in 0 .. TUI_INPUT_BUFFER_SIZE - 1 |-> 0],
         input_start |-> 0,
         input_end |-> 0,
         cursor_x |-> 0, cursor_y |-> 0, cursor_visible |-> FALSE,
         button_pressed |-> FALSE,
         mouse_enabled |-> FALSE,
         mouse_x |-> 0, mouse_y |-> 0, mouse_button |-> "NONE",
         resized |-> FALSE,
         bracketed_paste_enabled |-> FALSE,
         focus_events_enabled |-> FALSE,
         is_pasting |-> FALSE,
         initialized |-> TRUE,
         in_frame |-> FALSE,
         needs_redraw |-> TRUE],
        size)

(***************************************************************************)
(* Input ring                                                              *)
(***************************************************************************)
tui_input_available(c) ==
    (c.input_end - c.input_start + TUI_INPUT_BUFFER_SIZE) % TUI_INPUT_BUFFER_SIZE

tui_input_peek(c, offset) ==
    c.input_buffer[(c.input_start + offset) % TUI_INPUT_BUFFER_SIZE]

tui_input_consume(c, count) ==
    [c EXCEPT !.input_start = (c.input_start + count) % TUI_INPUT_BUFFER_SIZE]

\* a tui_posix_read_input that fills the ring up to its last byte whatever
\* input_start is
tui_posix_read_input_full(c, tty) ==
    LET available ==
            IF c.input_end >= c.input_start
            THEN TUI_INPUT_BUFFER_SIZE - c.input_end
            ELSE c.input_start - c.input_end - 1
        n == Min(available, Len(tty))
    IN  IF available <= 0 \/ n <= 0
        THEN [ctx |-> c, tty |-> tty]
        ELSE [ctx |-> [c EXCEPT
                  !.input_buffer =
                      [i \in 0 .. TUI_INPUT_BUFFER_SIZE - 1 |->
                          IF i >= c.input_end /\ i < c.input_end + n
                          THEN tty[i - c.input_end + 1]
                          ELSE c.input_buffer[i]],
                  !.input_end = (c.input_end + n) % TUI_INPUT_BUFFER_SIZE],
              tty |-> SubSeq(tty, n + 1, Len(tty))]

\* tui_posix_read_input: [ctx, tty]: the context after the read and the bytes
\* the tty still holds
tui_posix_read_input(c, tty) ==
    LET available ==
            IF c.input_end >= c.input_start
            THEN (TUI_INPUT_BUFFER_SIZE - c.input_end)
                     - (IF c.input_start = 0 THEN 1 ELSE 0)
            ELSE c.input_start - c.input_end - 1
        n == Min(available, Len(tty))
    IN  IF available <= 0 \/ n <= 0
        THEN [ctx |-> c, tty |-> tty]
        ELSE [ctx |-> [c EXCEPT
                  !.input_buffer =
                      [i \in 0 .. TUI_INPUT_BUFFER_SIZE - 1 |->
                          IF i >= c.input_end /\ i < c.input_end + n
                          THEN tty[i - c.input_end + 1]
                          ELSE c.input_buffer[i]],
                  !.input_end = (c.input_end + n) % TUI_INPUT_BUFFER_SIZE],
              tty |-> SubSeq(tty, n + 1, Len(tty))]

(***************************************************************************)
(* Input decoder                                                           *)
(***************************************************************************)
\* the event tui_poll_event and tui_parse_escape_sequence start from
NoEvent ==
    [type |-> "NONE", key |-> "NONE", ch |-> 0, mouse_button |-> "NONE",
     mouse_x |-> 0, mouse_y |-> 0, new_width |-> 0, new_height |-> 0,
     ctrl |-> FALSE, alt |-> FALSE, shift |-> FALSE]

KeyEvent(ev, k) == [ev EXCEPT !.type = "KEY", !.key = k]

\* params[k] of an int params[4] = {0} that holds the parsed values p (k from 0)
ParamAt(p, k) == IF k + 1 <= Len(p) THEN p[k + 1] ELSE 0

\* "if (param_count < max_params) params[param_count++] = has_digit ? current_param : 0"
PushParam(params, max_params, cur, has) ==
    IF Len(params) < max_params
    THEN Append(params, IF has THEN cur ELSE 0)
    ELSE params

\* the loop of tui_parse_csi_params, from offset i
RECURSIVE CsiScan(_, _, _, _, _, _)
CsiScan(c, i, params, cur, has, max_params) ==
    IF ~(i < tui_input_available(c) /\ i < 32)
    THEN [count |-> 0, params |-> params, end_pos |-> -1, final_char |-> 0]
    ELSE LET ch == tui_input_peek(c, i) IN
         IF ch >= 48 /\ ch <= 57
         THEN CsiScan(c, i + 1, params, cur * 10 + (ch - 48), TRUE, max_params)
         ELSE IF ch = 59
         THEN CsiScan(c, i + 1, PushParam(params, max_params, cur, has), 0, FALSE,
                      max_params)
         ELSE IF ch >= 64 /\ ch <= 126
         THEN LET p == PushParam(params, max_params, cur, has)
              IN  [count |-> Len(p), params |-> p, end_pos |-> i, final_char |-> ch]
         ELSE IF ch \in {60, 62, 63, 61}
         THEN CsiScan(c, i + 1, params, cur, has, max_params)
         ELSE [count |-> 0, params |-> params, end_pos |-> -1, final_char |-> 0]

tui_parse_csi_params(c, start, max_params) ==
    CsiScan(c, start, <<>>, 0, FALSE, max_params)

\* tui_decode_modifiers that forgets to subtract one
tui_decode_modifiers_raw(ev, modifier_param) ==
    [ev EXCEPT !.shift = Bit(modifier_param, 0) # 0,
               !.alt = Bit(modifier_param, 1) # 0,
               !.ctrl = Bit(modifier_param, 2) # 0]

\* modifier = 1 + (shift ? 1 : 0) + (alt ? 2 : 0) + (ctrl ? 4 : 0)
tui_decode_modifiers(ev, modifier_param) ==
    LET bits == modifier_param - 1
    IN  [ev EXCEPT !.shift = Bit(bits, 0) # 0,
                   !.alt = Bit(bits, 1) # 0,
                   !.ctrl = Bit(bits, 2) # 0]

\* the switch on (button_code & 0x43) of an SGR mouse report that ends in 'M'
MousePressButton(button_code) ==
    LET sw == BitAnd(button_code % 256, 67)
    IN  CASE sw = 0 -> "LEFT"
          [] sw = 1 -> "MIDDLE"
          [] sw = 2 -> "RIGHT"
          [] sw = 3 -> "RELEASE"
          [] sw = 64 -> "WHEEL_UP"
          [] sw = 65 -> "WHEEL_DOWN"
          [] OTHER -> IF Bit(button_code, 5) = 1 THEN "MOVE" ELSE "NONE"

\* the switch of the simple arrow keys, ESC [ X and ESC O X
ArrowKey(b) ==
    CASE b = 65 -> "UP"
      [] b = 66 -> "DOWN"
      [] b = 67 -> "RIGHT"
      [] b = 68 -> "LEFT"
      [] b = 72 -> "HOME"
      [] b = 70 -> "END"
      [] OTHER -> "NONE"

\* the switch on params[0] of ESC [ P ~
TildeKey(p) ==
    CASE p = 1 -> "HOME"
      [] p = 2 -> "INSERT"
      [] p = 3 -> "DELETE"
      [] p = 4 -> "END"
      [] p = 5 -> "PAGEUP"
      [] p = 6 -> "PAGEDOWN"
      [] p = 11 -> "F1"
      [] p = 12 -> "F2"
      [] p = 13 -> "F3"
      [] p = 14 -> "F4"
      [] p = 15 -> "F5"
      [] p = 17 -> "F6"
      [] p = 18 -> "F7"
      [] p = 19 -> "F8"
      [] p = 20 -> "F9"
      [] p = 21 -> "F10"
      [] p = 23 -> "F11"
      [] p = 24 -> "F12"
      [] OTHER -> "NONE"

\* the switch on b2 of ESC O X
Ss3Key(b) ==
    CASE b = 80 -> "F1"
      [] b = 81 -> "F2"
      [] b = 82 -> "F3"
      [] b = 83 -> "F4"
      [] OTHER -> ArrowKey(b)

\* a decoder that drops a byte whenever it returns no event
NotParsed_drop(c, count) ==
    [ret |-> 0, event |-> NoEvent, ctx |-> tui_input_consume(c, 1)]

\* a return of tui_parse_escape_sequence: 1 with an event and count bytes
\* consumed, or 0 with count bytes consumed
Parsed(c, ev, count) == [ret |-> 1, event |-> ev, ctx |-> tui_input_consume(c, count)]
NotParsed(c, count) == [ret |-> 0, event |-> NoEvent, ctx |-> tui_input_consume(c, count)]

\* "Extended CSI sequences with parameters": ESC [ params final
ParseCsiExtended(c) ==
    Let(tui_parse_csi_params(c, 2, 4), LAMBDA r :
        LET e0 == [NoEvent EXCEPT !.type = "KEY"]
            e1 == IF r.count >= 2 /\ ParamAt(r.params, 1) > 1
                  THEN tui_decode_modifiers(e0, ParamAt(r.params, 1))
                  ELSE e0
        IN  IF r.end_pos < 0 THEN NotParsed(c, 0)
            ELSE IF r.count >= 2 /\ ParamAt(r.params, 0) = 1
                      /\ ArrowKey(r.final_char) # "NONE"
            THEN Parsed(c, [e1 EXCEPT !.key = ArrowKey(r.final_char)], r.end_pos + 1)
            ELSE IF r.final_char = 126 /\ r.count >= 1
            THEN Parsed(c, [e1 EXCEPT !.key = TildeKey(ParamAt(r.params, 0))],
                        r.end_pos + 1)
            ELSE Parsed(c, [e1 EXCEPT !.key = "NONE"], r.end_pos + 1))

\* "Check for SGR mouse sequence": ESC [ < Pb ; Px ; Py M|m
ParseCsiMouse(c) ==
    Let(tui_parse_csi_params(c, 3, 4), LAMBDA r :
        IF r.end_pos < 0 THEN NotParsed(c, 0)
        ELSE IF r.final_char \in {77, 109} /\ r.count >= 3
        THEN Parsed(c,
                 [NoEvent EXCEPT
                     !.type = "MOUSE",
                     !.mouse_x = ParamAt(r.params, 1) - 1,
                     !.mouse_y = ParamAt(r.params, 2) - 1,
                     !.mouse_button =
                         IF r.final_char = 109 THEN "RELEASE"
                         ELSE MousePressButton(ParamAt(r.params, 0))],
                 r.end_pos + 1)
        ELSE ParseCsiExtended(c))

\* the branch b1 == '[' of tui_parse_escape_sequence
ParseCsi(c) ==
    LET available == tui_input_available(c)
        b2 == tui_input_peek(c, 2)
        b4 == tui_input_peek(c, 4)
    IN  IF available < 3 THEN NotParsed(c, 0)
        ELSE IF b2 = 73 THEN Parsed(c, [NoEvent EXCEPT !.type = "FOCUS_IN"], 3)
        ELSE IF b2 = 79 THEN Parsed(c, [NoEvent EXCEPT !.type = "FOCUS_OUT"], 3)
        ELSE IF b2 = 50 /\ available >= 6
                  /\ tui_input_peek(c, 3) = 48 /\ tui_input_peek(c, 5) = 126
                  /\ b4 = 48
        THEN Parsed([c EXCEPT !.is_pasting = TRUE],
                    [NoEvent EXCEPT !.type = "PASTE_START"], 6)
        ELSE IF b2 = 50 /\ available >= 6
                  /\ tui_input_peek(c, 3) = 48 /\ tui_input_peek(c, 5) = 126
                  /\ b4 = 49
        THEN Parsed([c EXCEPT !.is_pasting = FALSE],
                    [NoEvent EXCEPT !.type = "PASTE_END"], 6)
        ELSE IF b2 = 60 THEN ParseCsiMouse(c)
        ELSE IF ArrowKey(b2) # "NONE" THEN Parsed(c, KeyEvent(NoEvent, ArrowKey(b2)), 3)
        ELSE ParseCsiExtended(c)

\* tui_utf8_decode(data, len): [cp, n], the code point and the bytes it took
tui_utf8_decode(data, len) ==
    LET b0 == data[1] IN
    IF len < 1 THEN [cp |-> 0, n |-> 0]
    ELSE IF b0 < 128 THEN [cp |-> b0, n |-> 1]
    ELSE IF b0 >= 192 /\ b0 < 224 /\ len >= 2
    THEN [cp |-> (b0 % 32) * 64 + (data[2] % 64), n |-> 2]
    ELSE IF b0 >= 224 /\ b0 < 240 /\ len >= 3
    THEN [cp |-> (b0 % 16) * 4096 + (data[2] % 64) * 64 + (data[3] % 64), n |-> 3]
    ELSE IF b0 >= 240 /\ b0 < 248 /\ len >= 4
    THEN [cp |-> (b0 % 8) * 262144 + (data[2] % 64) * 4096 + (data[3] % 64) * 64
                    + (data[4] % 64),
          n |-> 4]
    ELSE [cp |-> b0, n |-> 1]

\* "Regular character (possibly UTF-8)": the length the lead byte announces,
\* 0 for a byte that is no lead byte
Utf8LeadLen(b0) ==
    IF b0 < 128 THEN 1
    ELSE IF b0 >= 192 /\ b0 < 224 THEN 2
    ELSE IF b0 >= 224 /\ b0 < 240 THEN 3
    ELSE IF b0 >= 240 /\ b0 < 248 THEN 4
    ELSE 0

\* a decoder that reports a lone ESC at once
EscAlone_now(c) ==
    [ret |-> 1, event |-> [NoEvent EXCEPT !.type = "KEY", !.key = "ESC"],
     ctx |-> tui_input_consume(c, 1)]

\* the lone-ESC guard "if (available < 2) return 0"
EscAlone(c) == NotParsed(c, 0)

tui_parse_escape_sequence(c) ==
    LET available == tui_input_available(c)
        b0 == tui_input_peek(c, 0)
        b1 == tui_input_peek(c, 1)
        len == Utf8LeadLen(b0)
    IN  IF available < 1 THEN NotParsed(c, 0)
        ELSE IF b0 = 27
        THEN IF available < 2 THEN EscAlone(c)
             ELSE IF b1 = 91 THEN ParseCsi(c)
             ELSE IF b1 = 79
             THEN IF available < 3 THEN NotParsed(c, 0)
                  ELSE Parsed(c, KeyEvent(NoEvent, Ss3Key(tui_input_peek(c, 2))), 3)
             ELSE Parsed(c, KeyEvent(NoEvent, "ESC"), 1)
        ELSE IF b0 = 13 \/ b0 = 10 THEN Parsed(c, KeyEvent(NoEvent, "ENTER"), 1)
        ELSE IF b0 = 127 \/ b0 = 8 THEN Parsed(c, KeyEvent(NoEvent, "BACKSPACE"), 1)
        ELSE IF b0 = 9 THEN Parsed(c, [KeyEvent(NoEvent, "TAB") EXCEPT !.ch = 9], 1)
        ELSE IF b0 = 32 THEN Parsed(c, [KeyEvent(NoEvent, "SPACE") EXCEPT !.ch = 32], 1)
        ELSE IF b0 = 0
        THEN Parsed(c, [KeyEvent(NoEvent, "SPACE") EXCEPT !.ch = 32, !.ctrl = TRUE], 1)
        ELSE IF b0 >= 1 /\ b0 <= 26
        THEN Parsed(c, [KeyEvent(NoEvent, "CHAR") EXCEPT !.ch = 97 + (b0 - 1),
                                                        !.ctrl = TRUE], 1)
        ELSE IF len = 0 THEN NotParsed(c, 1)
        ELSE IF available < len THEN NotParsed(c, 0)
        ELSE Parsed(c,
                 [KeyEvent(NoEvent, "CHAR") EXCEPT
                     !.ch = tui_utf8_decode([i \in 1 .. len |-> tui_input_peek(c, i - 1)],
                                            len).cp],
                 len)

(***************************************************************************)
(* tui_poll_event                                                          *)
(***************************************************************************)
\* the part of tui_poll_event after the resize check: read, then parse:
\* [ret, event, ctx, tty, head, kept], head the unread bytes the parser was
\* given, kept whether the parser left the ring's bytes and input_end alone
PollInput(c, tty) ==
    Let(tui_posix_read_input(c, tty), LAMBDA rd :
    Let(tui_parse_escape_sequence(rd.ctx), LAMBDA r :
        LET c1 == rd.ctx
            head == [i \in 1 .. tui_input_available(c1) |-> tui_input_peek(c1, i - 1)]
            c2 == IF r.ret = 1 /\ r.event.type = "MOUSE"
                  THEN [r.ctx EXCEPT !.mouse_x = r.event.mouse_x,
                                     !.mouse_y = r.event.mouse_y,
                                     !.mouse_button = r.event.mouse_button]
                  ELSE r.ctx
            c3 == IF r.ret = 1 /\ r.event.key = "ENTER"
                  THEN [c2 EXCEPT !.button_pressed = TRUE]
                  ELSE c2
        IN  IF tui_input_available(c1) > 0
            THEN [ret |-> r.ret, event |-> IF r.ret = 1 THEN r.event ELSE NoEvent,
                  ctx |-> c3, tty |-> rd.tty, head |-> head,
                  kept |-> (r.ctx.input_buffer = c1.input_buffer
                               /\ r.ctx.input_end = c1.input_end)]
            ELSE [ret |-> 0, event |-> NoEvent, ctx |-> c1, tty |-> rd.tty,
                  head |-> head, kept |-> TRUE]))

\* tui_poll_event: [ret, event, ctx, tty, head, kept, latch]
tui_poll_event(c, tty, latch, size) ==
    Let(tui_get_terminal_size(c, size), LAMBDA sized :
        IF latch = 1 /\ (sized.width # c.width \/ sized.height # c.height)
        THEN [ret |-> 1,
              event |-> [NoEvent EXCEPT !.type = "RESIZE",
                                        !.new_width = sized.width,
                                        !.new_height = sized.height],
              ctx |-> [sized EXCEPT !.resized = TRUE, !.needs_redraw = TRUE],
              tty |-> tty, head |-> <<>>, kept |-> TRUE, latch |-> 0]
        ELSE Let(PollInput(IF latch = 1 THEN sized ELSE c, tty), LAMBDA in :
                 [ret |-> in.ret, event |-> in.event, ctx |-> in.ctx, tty |-> in.tty,
                  head |-> in.head, kept |-> in.kept, latch |-> 0]))

\* the host calls tui_poll_event
PollEvent ==
    \E r \in {tui_poll_event(ctx, tty_in, tui_sigwinch_received, tty_size)} :
        /\ ctx' = r.ctx
        /\ tty_in' = r.tty
        /\ tui_sigwinch_received' = r.latch
        /\ events' = IF r.ret = 1 THEN Append(events, r.event) ELSE events
        /\ lastPoll' = [ret |-> r.ret, event |-> r.event, head |-> r.head,
                        kept |-> r.kept,
                        n |-> Len(r.head) - tui_input_available(r.ctx),
                        reads |-> lastPoll.reads
                                      + (IF Len(r.tty) < Len(tty_in) THEN 1 ELSE 0)]
        /\ hist' = IF r.event.type = "RESIZE" THEN [hist EXCEPT !.clean_run = 0] ELSE hist
        /\ UNCHANGED <<tty_size, term, out, fed, chosen, widgets, wm, route>>

(***************************************************************************)
(* Display width and UTF-8 encoding                                        *)
(***************************************************************************)
\* a tui_char_width without the range of the vertical forms
tui_char_width_narrow(cp) ==
    IF cp = 0 \/ cp < 32 \/ (cp >= 127 /\ cp < 160) THEN 0
    ELSE IF \/ (cp >= 768 /\ cp <= 879)
            \/ (cp >= 6832 /\ cp <= 6911)
            \/ (cp >= 7616 /\ cp <= 7679)
            \/ (cp >= 8400 /\ cp <= 8447)
            \/ (cp >= 65056 /\ cp <= 65071)
            \/ cp \in {8203, 8204, 8205, 65279}
    THEN 0
    ELSE IF \/ (cp >= 4352 /\ cp <= 4447)
            \/ (cp >= 11904 /\ cp <= 40959)
            \/ (cp >= 44032 /\ cp <= 55203)
            \/ (cp >= 63744 /\ cp <= 64255)
            \/ (cp >= 65072 /\ cp <= 65135)
            \/ (cp >= 65280 /\ cp <= 65376)
            \/ (cp >= 65504 /\ cp <= 65510)
            \/ (cp >= 131072 /\ cp <= 196605)
            \/ (cp >= 196608 /\ cp <= 262141)
            \/ (cp >= 127744 /\ cp <= 129535)
            \/ (cp >= 9728 /\ cp <= 10175)
    THEN 2
    ELSE 1

tui_char_width(cp) ==
    IF cp = 0 THEN 0
    ELSE IF cp < 32 \/ (cp >= 127 /\ cp < 160) THEN 0
    ELSE IF \/ (cp >= 768 /\ cp <= 879)
            \/ (cp >= 6832 /\ cp <= 6911)
            \/ (cp >= 7616 /\ cp <= 7679)
            \/ (cp >= 8400 /\ cp <= 8447)
            \/ (cp >= 65056 /\ cp <= 65071)
            \/ cp = 8203 \/ cp = 8204
            \/ cp = 8205 \/ cp = 65279
    THEN 0
    ELSE IF \/ (cp >= 4352 /\ cp <= 4447)
            \/ (cp >= 11904 /\ cp <= 40959)
            \/ (cp >= 44032 /\ cp <= 55203)
            \/ (cp >= 63744 /\ cp <= 64255)
            \/ (cp >= 65040 /\ cp <= 65055)
            \/ (cp >= 65072 /\ cp <= 65135)
            \/ (cp >= 65280 /\ cp <= 65376)
            \/ (cp >= 65504 /\ cp <= 65510)
            \/ (cp >= 131072 /\ cp <= 196605)
            \/ (cp >= 196608 /\ cp <= 262141)
    THEN 2
    ELSE IF \/ (cp >= 127744 /\ cp <= 129535)
            \/ (cp >= 9728 /\ cp <= 9983)
            \/ (cp >= 9984 /\ cp <= 10175)
    THEN 2
    ELSE 1

\* the bytes tui_utf8_encode writes
tui_utf8_encode(cp) ==
    IF cp < 128 THEN <<cp>>
    ELSE IF cp < 2048 THEN <<192 + (cp \div 64), 128 + (cp % 64)>>
    ELSE IF cp < 65536
    THEN <<224 + (cp \div 4096), 128 + ((cp \div 64) % 64), 128 + (cp % 64)>>
    ELSE IF cp < 1114112
    THEN <<240 + (cp \div 262144), 128 + ((cp \div 4096) % 64),
           128 + ((cp \div 64) % 64), 128 + (cp % 64)>>
    ELSE <<63>>

(***************************************************************************)
(* Drawing calls                                                           *)
(***************************************************************************)
\* the cell the drawing calls write: the code point in the current style
PenCell(c, codepoint) ==
    [codepoint |-> codepoint, fg |-> c.current_fg, bg |-> c.current_bg,
     underline_color |-> c.current_underline_color, style |-> c.current_style]

\* a tui_set_cell that does not look at in_frame
tui_set_cell_anytime(c, x, y, codepoint) ==
    IF x < 0 \/ x >= c.width \/ y < 0 \/ y >= c.height THEN c
    ELSE [c EXCEPT !.back_buffer[<<x, y>>] = PenCell(c, codepoint)]

tui_set_cell(c, x, y, codepoint) ==
    IF ~c.in_frame THEN c
    ELSE IF x < 0 \/ x >= c.width \/ y < 0 \/ y >= c.height THEN c
    ELSE [c EXCEPT !.back_buffer[<<x, y>>] = PenCell(c, codepoint)]

tui_set_cell_wide(c, x, y, codepoint) ==
    IF ~c.in_frame THEN c
    ELSE IF x < 0 \/ x >= c.width - 1 \/ y < 0 \/ y >= c.height THEN c
    ELSE [c EXCEPT !.back_buffer[<<x, y>>] = PenCell(c, codepoint),
                   !.back_buffer[<<x + 1, y>>] = PenCell(c, 32)]

\* the while loop of tui_label, at byte pos (from 0) of text, pen at (cur_x, y)
RECURSIVE LabelLoop(_, _, _, _, _, _)
LabelLoop(c, text, pos, x, y, cur_x) ==
    IF ~(pos < Len(text) /\ cur_x < c.width) THEN c
    ELSE Let(tui_utf8_decode(SubSeq(text, pos + 1, Len(text)), Len(text) - pos),
             LAMBDA d :
         LET char_width == tui_char_width(d.cp)
         IN  IF d.cp = 10
             THEN LabelLoop(c, text, pos + d.n, x, y + 1, x)
             ELSE IF d.cp >= 32 /\ char_width = 2
             THEN IF cur_x + 1 < c.width
                  THEN Let(tui_set_cell_wide(c, cur_x, y, d.cp), LAMBDA c1 :
                           LabelLoop(c1, text, pos + d.n, x, y, cur_x + 2))
                  ELSE LabelLoop(c, text, pos + d.n, x, y, cur_x + 1)
             ELSE IF d.cp >= 32 /\ char_width = 1
             THEN Let(tui_set_cell(c, cur_x, y, d.cp), LAMBDA c1 :
                      LabelLoop(c1, text, pos + d.n, x, y, cur_x + 1))
             ELSE LabelLoop(c, text, pos + d.n, x, y, cur_x))

tui_label(c, x, y, text) ==
    IF ~c.in_frame THEN c ELSE LabelLoop(c, text, 0, x, y, x)

\* "for (j = 0; j < h; j++) for (i = 0; i < w; i++) tui_set_cell(ctx, x + i, y + j, ch)"
\* from row j, column i on
RECURSIVE FillLoop(_, _, _, _, _, _, _, _)
FillLoop(c, x, y, w, h, ch, j, i) ==
    IF j >= h THEN c
    ELSE IF i >= w THEN FillLoop(c, x, y, w, h, ch, j + 1, 0)
    ELSE Let(tui_set_cell(c, x + i, y + j, ch), LAMBDA c1 :
             FillLoop(c1, x, y, w, h, ch, j, i + 1))

tui_fill(c, x, y, w, h, ch) ==
    IF ~c.in_frame THEN c ELSE FillLoop(c, x, y, w, h, ch, 0, 0)

\* "for (i = 0; i < len; i++) tui_set_cell(ctx, x + i * dx, y + i * dy, ch)" from i on:
\* dx = 1 in tui_hline, dy = 1 in tui_vline
RECURSIVE LineLoop(_, _, _, _, _, _, _, _)
LineLoop(c, x, y, dx, dy, len, ch, i) ==
    IF i >= len THEN c
    ELSE Let(tui_set_cell(c, x + i * dx, y + i * dy, ch), LAMBDA c1 :
             LineLoop(c1, x, y, dx, dy, len, ch, i + 1))

tui_hline(c, x, y, len, ch) ==
    IF ~c.in_frame THEN c ELSE LineLoop(c, x, y, 1, 0, len, ch, 0)

tui_vline(c, x, y, len, ch) ==
    IF ~c.in_frame THEN c ELSE LineLoop(c, x, y, 0, 1, len, ch, 0)

\* the visible area filled with spaces in the current colours
tui_clear(c) ==
    IF ~c.in_frame THEN c ELSE FillLoop(c, 0, 0, c.width, c.height, 32, 0, 0)

tui_begin_frame(c, size) ==
    IF ~c.initialized THEN c
    ELSE [tui_get_terminal_size(c, size) EXCEPT
             !.back_buffer = tui_clear_buffer,
             !.current_fg = TUI_COLOR_DEFAULT,
             !.current_bg = TUI_COLOR_DEFAULT,
             !.current_style = 0,
             !.button_pressed = FALSE,
             !.in_frame = TRUE]

(***************************************************************************)
(* tui_end_frame                                                           *)
(***************************************************************************)
\* one escape sequence or one glyph written to the output buffer
Tok(op, a, b) == [op |-> op, a |-> a, b |-> b]

\* tui_ansi_set_style: one sequence for each flag of the style byte
tui_ansi_set_style(style) ==
    LET On(k) == IF Bit(style, k) = 1 THEN <<Tok("STYLE_ON", k, 0)>> ELSE <<>>
    IN  On(0) \o On(1) \o On(2) \o On(3) \o On(4) \o On(5) \o On(6) \o On(7)

\* CopyCell that loses the copy
CopyCell_skip(front, p, cell) == front

\* "*front = *back"
CopyCell(front, p, cell) == [front EXCEPT ![p] = cell]

\* the diff loop of tui_end_frame from cell idx (row-major); st holds the front
\* buffer, the output so far, the last_* locals and the cells given a glyph
RECURSIVE FlushLoop(_, _, _)
FlushLoop(c, idx, st) ==
    IF idx >= c.width * c.height THEN st
    ELSE LET x == idx % c.width
             y == idx \div c.width
             front == st.front[<<x, y>>]
             back == c.back_buffer[<<x, y>>]
             restyle == back.style # st.last_style
             fg0 == IF restyle THEN COLOR_UNKNOWN ELSE st.last_fg
             bg0 == IF restyle THEN COLOR_UNKNOWN ELSE st.last_bg
             ul0 == IF restyle THEN COLOR_UNKNOWN ELSE st.last_underline_color
             seqs ==
                 (IF st.last_x # x - 1 \/ st.last_y # y
                  THEN <<Tok("MOVE", x, y)>> ELSE <<>>)
                 \o (IF restyle
                     THEN <<Tok("RESET", 0, 0)>> \o tui_ansi_set_style(back.style)
                     ELSE <<>>)
                 \o (IF back.fg # fg0 THEN <<Tok("FG", back.fg, 0)>> ELSE <<>>)
                 \o (IF back.bg # bg0 THEN <<Tok("BG", back.bg, 0)>> ELSE <<>>)
                 \o (IF back.underline_color # ul0
                     THEN <<Tok("UNDERLINE_COLOR", back.underline_color, 0)>>
                     ELSE <<>>)
                 \o <<Tok("GLYPH", back.codepoint, 0)>>
         IN  IF tui_cell_equal(front, back)
             THEN FlushLoop(c, idx + 1, st)
             ELSE Let([front |-> CopyCell(st.front, <<x, y>>, back),
                       out |-> st.out \o seqs,
                       last_fg |-> back.fg,
                       last_bg |-> back.bg,
                       last_underline_color |-> back.underline_color,
                       last_style |-> back.style,
                       last_x |-> x, last_y |-> y,
                       written |-> Append(st.written, <<x, y>>)],
                      LAMBDA st1 : FlushLoop(c, idx + 1, st1))

\* tui_end_frame of a context that is in a frame: [ctx, out, front0, written],
\* front0 the front buffer the diff loop started from, written the cells it
\* gave a glyph, in order
tui_end_frame(c) ==
    LET clear == IF c.needs_redraw
                 THEN <<Tok("RESET", 0, 0), Tok("CLEAR", 0, 0), Tok("HOME", 0, 0)>>
                 ELSE <<>>
        front0 == IF c.needs_redraw THEN tui_clear_buffer ELSE c.front_buffer
        cursor == IF c.cursor_visible
                  THEN <<Tok("MOVE", c.cursor_x, c.cursor_y), Tok("SHOW_CURSOR", 0, 0)>>
                  ELSE <<>>
    IN  Let([front |-> front0,
             out |-> clear \o <<Tok("BEGIN_SYNC", 0, 0)>>,
             last_fg |-> COLOR_UNKNOWN, last_bg |-> COLOR_UNKNOWN,
             last_underline_color |-> COLOR_UNKNOWN, last_style |-> 255,
             last_x |-> -2, last_y |-> -2,
             written |-> <<>>], LAMBDA st0 :
        Let(FlushLoop(c, 0, st0), LAMBDA st :
            [ctx |-> [c EXCEPT !.needs_redraw = FALSE, !.front_buffer = st.front,
                               !.in_frame = FALSE],
             out |-> st.out \o cursor \o <<Tok("END_SYNC", 0, 0)>>,
             front0 |-> front0,
             written |-> st.written]))

(***************************************************************************)
(* The terminal                                                            *)
(***************************************************************************)
\* the terminal's screen after it executes the sequences toks; size is its size.
\* A glyph is stored at the cursor, which advances by the glyph's width; the
\* second column of a wide glyph shows blank; a glyph past the right edge is lost
RECURSIVE TermApply(_, _, _, _)
TermApply(t, toks, k, size) ==
    IF k > Len(toks) THEN t
    ELSE LET tk == toks[k]
             bytes == tui_utf8_encode(tk.a)
             cp == tui_utf8_decode(bytes, Len(bytes)).cp
             wd == tui_char_width(cp)
             t1 == CASE tk.op = "CLEAR" -> [t EXCEPT !.cells = [p \in Grid |-> 32]]
                     [] tk.op = "HOME" -> [t EXCEPT !.cx = 0, !.cy = 0]
                     [] tk.op = "MOVE" ->
                            [t EXCEPT !.cx = Max(0, Min(tk.a, size[1] - 1)),
                                      !.cy = Max(0, Min(tk.b, size[2] - 1))]
                     [] tk.op = "GLYPH" ->
                            IF t.cx < size[1]
                            THEN [t EXCEPT
                                     !.cells = [p \in Grid |->
                                         IF p = <<t.cx, t.cy>> THEN cp
                                         ELSE IF wd = 2 /\ p = <<t.cx + 1, t.cy>>
                                                   /\ t.cx + 1 < size[1]
                                         THEN 32
                                         ELSE t.cells[p]],
                                     !.cx = t.cx + wd]
                            ELSE t
                     [] OTHER -> t
         IN  Let(t1, LAMBDA t2 : TermApply(t2, toks, k + 1, size))

\* the screen after tui_create: alternate screen, cleared, cursor home
TermInit == [cells |-> [p \in Grid |-> 32], cx |-> 0, cy |-> 0]

(***************************************************************************)
(* Initial values of the parts a specification does not exercise           *)
(***************************************************************************)
NoPoll ==
    [ret |-> 0, event |-> NoEvent, head |-> <<>>, kept |-> TRUE, n |-> 0, reads |-> 0]
NoChoice == [kind |-> "none", bytes |-> <<>>, event |-> NoEvent, start |-> 0]

HistInit ==
    [frames |-> 0,                  \* tui_end_frame calls so far
     draws |-> 0,                   \* drawing and state calls so far
     frame_draws |-> 0,             \* those since the last tui_begin_frame
     resizes |-> 0,                 \* times the terminal changed size
     clean_run |-> 0,               \* tui_begin_frame calls since the last resize
     same_back |-> FALSE,           \* the last two flushes had equal back buffers
     last_back |-> tui_clear_buffer,    \* back buffer of the last flush
     front0 |-> tui_clear_buffer,   \* front buffer its diff loop started from
     written |-> <<>>,              \* cells its diff loop gave a glyph
     end_size |-> <<0, 0>>,         \* width, height of the last flush
     end_cursor |-> <<FALSE, 0, 0>>]    \* cursor_visible, cursor_x, cursor_y of it

NoWidgets == <<>>
NoWm == [root |-> 0, focus |-> 0, hover |-> 0, focus_stack |-> <<>>, hotkeys |-> <<>>]
NoRoute ==
    [base |-> NoEvent, stopped |-> FALSE, prevented |-> FALSE, consumed |-> FALSE,
     target |-> 0, phase |-> "NONE", calls |-> <<>>]

(***************************************************************************)
(* The frame loop: the host draws frames while the terminal changes size   *)
(***************************************************************************)
MaxFrames == 2      \* tui_end_frame calls of a run
MaxDraws == 2       \* drawing and state calls of a run
MaxResizes == 2     \* size changes of the terminal

Sizes == {<<MaxW, MaxH>>, <<MaxW - 1, MaxH - 1>>}

\* arguments of the drawing calls: in range and one past the edge
DrawXs == 0 .. MaxW
DrawYs == 0 .. MaxH
\* the ideograph followed by A; A, newline, B
Texts == {<<228, 184, 173, 65>>, <<65, 10, 66>>}
\* red; bold; a cursor position other than the initial (0, 0)
Colors == {13369344}
Styles == {1}
CursorSpots == {<<1, 0>>}

InitRender ==
    /\ tty_size \in Sizes
    /\ ctx = tui_create(tty_size)
    /\ tty_in = <<>>
    /\ tui_sigwinch_received = 0
    /\ term = TermInit
    /\ out = <<>>
    /\ events = <<>>
    /\ fed = <<>>
    /\ lastPoll = NoPoll
    /\ chosen = NoChoice
    /\ hist = HistInit
    /\ widgets = NoWidgets
    /\ wm = NoWm
    /\ route = NoRoute

Idle == UNCHANGED <<tty_in, tty_size, tui_sigwinch_received, term, out, events, fed,
                    lastPoll, chosen, widgets, wm, route>>

\* a call between frames or inside one that changes the context only
Call(c) ==
    /\ hist.draws < MaxDraws
    /\ ctx' = c
    /\ hist' = [hist EXCEPT !.draws = @ + 1, !.frame_draws = @ + 1]
    /\ Idle

BeginFrame ==
    /\ hist.frames < MaxFrames
    /\ ~ctx.in_frame
    /\ ctx' = tui_begin_frame(ctx, tty_size)
    /\ hist' = [hist EXCEPT !.frame_draws = 0, !.clean_run = Min(@ + 1, 2)]
    /\ Idle

SetCell == \E x \in DrawXs, y \in DrawYs :
    Call(tui_set_cell(ctx, x, y, 65))

SetCellWide == \E x \in DrawXs, y \in DrawYs :
    Call(tui_set_cell_wide(ctx, x, y, 20013))

Label == \E x \in DrawXs, y \in {0}, text \in Texts :
    Call(tui_label(ctx, x, y, text))

SetFg == \E color \in Colors : Call([ctx EXCEPT !.current_fg = color])

SetStyle == \E style \in Styles : Call([ctx EXCEPT !.current_style = style])

SetCursor == \E p \in CursorSpots :
    Call([ctx EXCEPT !.cursor_x = p[1], !.cursor_y = p[2]])

\* tui_show_cursor; outside a frame it also writes the show or hide sequence,
\* which leaves the screen's cells alone
ShowCursor == \E show \in {TRUE} : Call([ctx EXCEPT !.cursor_visible = show])

EndFrame ==
    /\ ctx.in_frame
    /\ \E r \in {tui_end_frame(ctx)} :
           /\ ctx' = r.ctx
           /\ out' = r.out
           /\ term' = TermApply(term, r.out, 1, tty_size)
           /\ hist' = [hist EXCEPT
                  !.frames = @ + 1,
                  !.same_back = (hist.frames >= 1 /\ ctx.back_buffer = hist.last_back),
                  !.last_back = ctx.back_buffer,
                  !.front0 = r.front0,
                  !.written = r.written,
                  !.end_size = <<ctx.width, ctx.height>>,
                  !.end_cursor = <<ctx.cursor_visible, ctx.cursor_x, ctx.cursor_y>>]
    /\ UNCHANGED <<tty_in, tty_size, tui_sigwinch_received, events, fed, lastPoll,
                   chosen, widgets, wm, route>>

\* the terminal changes size: TIOCGWINSZ reports the new size from now on and
\* tui_sigwinch_handler sets the latch
TermResize ==
    /\ hist.resizes < MaxResizes
    /\ \E size \in Sizes \ {tty_size} : tty_size' = size
    /\ tui_sigwinch_received' = 1
    /\ hist' = [hist EXCEPT !.resizes = @ + 1, !.clean_run = 0]
    /\ UNCHANGED <<ctx, tty_in, term, out, events, fed, lastPoll, chosen, widgets, wm,
                   route>>

NextRender ==
    \/ BeginFrame
    \/ SetCell
    \/ SetCellWide
    \/ Label
    \/ SetFg
    \/ SetStyle
    \/ SetCursor
    \/ ShowCursor
    \/ EndFrame
    \/ TermResize
    \/ PollEvent

SpecRender == InitRender /\ [][NextRender]_vars

\* the cells of the visible region
Visible == {p \in Grid : p[1] < ctx.width /\ p[2] < ctx.height}

\* a frame has been flushed and the context still has the size it was flushed at
Flushed ==
    /\ hist.frames >= 1
    /\ ~ctx.in_frame
    /\ <<ctx.width, ctx.height>> = hist.end_size

\* C1: after every tui_end_frame, whatever frames, drawing calls and resizes
\* came before, each cell of the front buffer inside the current width and
\* height equals the same cell of the back buffer
C1_FrontEqualsBack ==
    Flushed => \A p \in Visible : ctx.front_buffer[p] = ctx.back_buffer[p]

\* a second frame, after a resize, whose flush copied cells to the front buffer
C1_Witness ==
    /\ Flushed
    /\ hist.frames = 2
    /\ hist.resizes >= 1
    /\ hist.written # <<>>
    /\ \E p \in Visible : ctx.front_buffer[p].codepoint = 20013


\* C2: between frames the screen of a terminal that executes the emitted
\* cursor moves and glyphs (a width-2 glyph advancing the cursor by two
\* columns) shows, at every visible cell, the code point of the front buffer
C2_ScreenShowsFront ==
    (Flushed /\ hist.resizes = 0)
        => \A p \in Visible : term.cells[p] = ctx.front_buffer[p].codepoint

\* C3: tui_end_frame writes a glyph for a visible cell exactly when the cell's
\* back-buffer value differs from its front-buffer value at the start of the
\* diff: one glyph for each differing cell, none for a cell where they agree
C3_GlyphIffDirty ==
    Flushed =>
        \A p \in Visible :
            Cardinality({k \in 1 .. Len(hist.written) : hist.written[k] = p})
                = IF hist.front0[p] # hist.last_back[p] THEN 1 ELSE 0

\* a second flush that skipped a cell holding the same glyph as before and
\* wrote the one cell that had changed
C3_Witness ==
    /\ Flushed
    /\ hist.frames = 2
    /\ Len(hist.written) = 1
    /\ hist.front0[hist.written[1]] # hist.last_back[hist.written[1]]
    /\ \E p \in Visible :
        /\ hist.front0[p].codepoint = 65
        /\ hist.last_back[p] = hist.front0[p]


\* two consecutive frames with identical back buffers and no resize from the
\* start of the first to the end of the second
SecondOfTwoEqualFrames ==
    /\ hist.frames >= 2
    /\ hist.clean_run >= 2
    /\ hist.same_back
    /\ ~ctx.in_frame

\* C4 as stated: the second of two such frames writes no cursor-position
\* sequence and no glyph, whatever the drawing state of the context
C4_Original ==
    SecondOfTwoEqualFrames =>
        \A k \in 1 .. Len(out) : out[k].op \notin {"MOVE", "GLYPH"}

\* C4: the second of two such frames writes the begin and end
\* synchronized-update sequences and, between them, nothing but the move to
\* (cursor_x, cursor_y) and show-cursor when the cursor is visible: no glyph,
\* and no cursor-position sequence when the cursor is hidden
C4_OnlySyncAndCursor ==
    SecondOfTwoEqualFrames =>
        out = <<Tok("BEGIN_SYNC", 0, 0)>>
              \o (IF hist.end_cursor[1]
                  THEN <<Tok("MOVE", hist.end_cursor[2], hist.end_cursor[3]),
                         Tok("SHOW_CURSOR", 0, 0)>>
                  ELSE <<>>)
              \o <<Tok("END_SYNC", 0, 0)>>

\* the second frame drew the same non-empty picture as the first
C4_Witness ==
    /\ SecondOfTwoEqualFrames
    /\ \E p \in Visible : ctx.back_buffer[p].codepoint = 65
    /\ out = <<Tok("BEGIN_SYNC", 0, 0), Tok("END_SYNC", 0, 0)>>

(***************************************************************************)
(* The input decoder fed arbitrary bytes in arbitrary chunks               *)
(***************************************************************************)
\* ESC [ O A 0 1 2 ~ ; 0x01 0x80 0xC3
Alphabet == {27, 91, 79, 65, 48, 49, 50, 126, 59, 1, 128, 195}

\* what the terminal had sent before the first poll: nothing, the head of a
\* paste marker (ESC [ 2 0), the head of a mouse report (ESC [ < 0 ; 1 ;)
InitialInput == {<<>>, <<27, 91, 50, 48>>, <<27, 91, 60, 48, 59, 49, 59>>}

\* positions of the ring at the first byte: fresh, and two bytes before the wrap
RingStarts == {0, TUI_INPUT_BUFFER_SIZE - 2}

CtxAt(size, start) ==
    [tui_create(size) EXCEPT !.input_start = start, !.input_end = start]

\* the terminal sends one more byte
Feed ==
    /\ Len(fed) - Len(chosen.bytes) < MaxFed
    /\ \E b \in Alphabet :
        /\ tty_in' = Append(tty_in, b)
        /\ fed' = Append(fed, b)
    /\ UNCHANGED <<ctx, tty_size, tui_sigwinch_received, term, out, events, lastPoll,
                   chosen, hist, widgets, wm, route>>

\* a poll now would return no event and change nothing
Quiescent ==
    \E r \in {PollInput(ctx, tty_in)} : r.ret = 0 /\ r.ctx = ctx /\ r.tty = tty_in

\* the events of polling until nothing is left, from context c with tty holding
\* the bytes still to read
RECURSIVE Drain(_, _, _, _)
Drain(c, tty, evs, fuel) ==
    Let(PollInput(c, tty), LAMBDA r :
        IF fuel = 0 \/ (r.ret = 0 /\ r.ctx = c /\ r.tty = tty)
        THEN evs
        ELSE Let(IF r.ret = 1 THEN Append(evs, r.event) ELSE evs, LAMBDA evs1 :
                 Drain(r.ctx, r.tty, evs1, fuel - 1)))

\* the whole stream reaches the tty at once and is polled until nothing is left
OneShotEvents(stream, start) ==
    Let(CtxAt(<<MaxW, MaxH>>, start), LAMBDA c :
        Drain(c, stream, <<>>, 2 * Len(stream) + 2))

\* the unread bytes of the ring
RingHead(c) == [i \in 1 .. tui_input_available(c) |-> tui_input_peek(c, i - 1)]

InitInput ==
    /\ tty_size = <<MaxW, MaxH>>
    /\ \E start \in RingStarts, pre \in InitialInput :
        /\ ctx = CtxAt(tty_size, start)
        /\ tty_in = pre
        /\ fed = pre
        /\ chosen = [kind |-> "stream", bytes |-> pre, event |-> NoEvent,
                     start |-> start]
    /\ tui_sigwinch_received = 0
    /\ term = TermInit
    /\ out = <<>>
    /\ events = <<>>
    /\ lastPoll = NoPoll
    /\ hist = HistInit
    /\ widgets = NoWidgets
    /\ wm = NoWm
    /\ route = NoRoute

NextInput ==
    \/ Feed
    \/ PollEvent

SpecInput == InitInput /\ [][NextInput]_vars

\* C5: whenever polling has come to rest, the events returned so far, however
\* the bytes were chunked into reads (one at a time included), are the events
\* of reading the whole stream in one read and polling until nothing is left
C5_ChunkingIndependent ==
    Quiescent => events = OneShotEvents(fed, chosen.start)

\* ESC [ A delivered in three reads of one byte each, decoded as one UP key
C5_Witness ==
    /\ Quiescent
    /\ fed = <<27, 91, 65>>
    /\ lastPoll.reads = 3
    /\ events = <<KeyEvent(NoEvent, "UP")>>

\* bytes a CSI sequence may hold before its final byte: digits ; < = > ?
ParamBytes == (48 .. 57) \cup {59, 60, 61, 62, 63}

\* h is the start of a sequence that more bytes can complete: a lone ESC, ESC [
\* or ESC O alone, a CSI or mouse report without its final byte, a UTF-8 lead
\* byte without all of its continuation bytes
IncompleteHead(h) ==
    \/ h = <<27>>
    \/ h = <<27, 91>>
    \/ h = <<27, 79>>
    \/ /\ Len(h) >= 3
       /\ h[1] = 27 /\ h[2] = 91
       /\ \A k \in 3 .. Len(h) : h[k] \in ParamBytes
    \/ /\ Len(h) >= 1
       /\ \/ h[1] \in 192 .. 223 /\ Len(h) < 2
          \/ h[1] \in 224 .. 239 /\ Len(h) < 3
          \/ h[1] \in 240 .. 247 /\ Len(h) < 4

\* C6: the decoder never comes to rest with unread bytes in the ring unless
\* they are the start of a sequence that more bytes can complete: a malformed
\* byte (one after a CSI prefix that is neither parameter nor final byte
\* included) is dropped, so polling goes on to the bytes behind it
C6_MalformedByteDropped ==
    (Quiescent /\ tui_input_available(ctx) > 0) => IncompleteHead(RingHead(ctx))

\* C7: a decoder call on an incomplete head returns no event and leaves
\* input_start and the ring's bytes alone; a call that returns no event
\* consumes at most one byte, and no call changes the bytes of the ring
C7_IncompleteNotConsumed ==
    /\ IncompleteHead(lastPoll.head) => (lastPoll.ret = 0 /\ lastPoll.n = 0)
    /\ lastPoll.ret = 0 => lastPoll.n \in {0, 1}
    /\ lastPoll.kept

\* a mouse report still lacking its final byte, after a poll that read a byte
C7_Witness ==
    /\ lastPoll.head = <<27, 91, 60, 48, 59, 49, 59, 49>>
    /\ lastPoll.reads >= 2
    /\ lastPoll.ret = 0
    /\ RingHead(ctx) = lastPoll.head

(***************************************************************************)
(* The input decoder given one sequence of the recognized set              *)
(***************************************************************************)
\* the ASCII decimal digits of n
Dec(n) ==
    IF n < 10 THEN <<48 + n>>
    ELSE IF n < 100 THEN <<48 + (n \div 10), 48 + (n % 10)>>
    ELSE <<48 + (n \div 100), 48 + ((n \div 10) % 10), 48 + (n % 10)>>

\* the documented keys: final byte of ESC [ X; P of ESC [ P ~; X of ESC O X
DocArrow ==
    {<<65, "UP">>, <<66, "DOWN">>, <<67, "RIGHT">>, <<68, "LEFT">>, <<72, "HOME">>,
     <<70, "END">>}
DocTilde ==
    {<<1, "HOME">>, <<4, "END">>, <<2, "INSERT">>, <<3, "DELETE">>, <<5, "PAGEUP">>,
     <<6, "PAGEDOWN">>, <<11, "F1">>, <<12, "F2">>, <<13, "F3">>, <<14, "F4">>,
     <<15, "F5">>, <<17, "F6">>, <<18, "F7">>, <<19, "F8">>, <<20, "F9">>,
     <<21, "F10">>, <<23, "F11">>, <<24, "F12">>}
DocSs3 == DocArrow \cup {<<80, "F1">>, <<81, "F2">>, <<82, "F3">>, <<83, "F4">>}

\* a key event with the modifiers the parameter m encodes
DocKey(k, m) ==
    [KeyEvent(NoEvent, k) EXCEPT !.shift = Bit(m - 1, 0) = 1,
                                 !.alt = Bit(m - 1, 1) = 1,
                                 !.ctrl = Bit(m - 1, 2) = 1]

Canon(kind, bytes, event) == [kind |-> kind, bytes |-> bytes, event |-> event]

\* the key, focus and paste sequences in canonical form, each with its event
CanonSeqs ==
    {Canon("arrow", <<27, 91, p[1]>>, DocKey(p[2], 1)) : p \in DocArrow}
    \cup {Canon("modified", <<27, 91, 49, 59>> \o Dec(q[1]) \o <<q[2][1]>>,
              DocKey(q[2][2], q[1])) : q \in (1 .. 8) \X DocArrow}
    \cup {Canon("tilde", <<27, 91>> \o Dec(p[1]) \o <<126>>, DocKey(p[2], 1)) :
              p \in DocTilde}
    \cup {Canon("ss3", <<27, 79, p[1]>>, DocKey(p[2], 1)) : p \in DocSs3}
    \cup {Canon("focus", <<27, 91, 73>>, [NoEvent EXCEPT !.type = "FOCUS_IN"]),
          Canon("focus", <<27, 91, 79>>, [NoEvent EXCEPT !.type = "FOCUS_OUT"]),
          Canon("paste", <<27, 91>> \o Dec(200) \o <<126>>,
              [NoEvent EXCEPT !.type = "PASTE_START"]),
          Canon("paste", <<27, 91>> \o Dec(201) \o <<126>>,
              [NoEvent EXCEPT !.type = "PASTE_END"])}

\* button codes of the generated mouse reports: the three buttons, with shift,
\* meta and control held, motion with a button or none held, the wheel
MousePb == {0, 1, 2, 4, 9, 18, 32, 33, 34, 35, 64, 65}

\* the documented button of a report with button code pb and final byte f
DocMouseButton(pb, f) ==
    IF f = 109 THEN "RELEASE"
    ELSE IF Bit(pb, 5) = 1 THEN "MOVE"
    ELSE IF pb = 64 THEN "WHEEL_UP"
    ELSE IF pb = 65 THEN "WHEEL_DOWN"
    ELSE IF pb % 4 = 0 THEN "LEFT"
    ELSE IF pb % 4 = 1 THEN "MIDDLE"
    ELSE "RIGHT"

\* ESC [ < Pb ; Px ; Py M|m, each with its documented event
MouseSeqs ==
    {Canon("mouse",
         <<27, 91, 60>> \o Dec(q[1]) \o <<59>> \o Dec(q[2]) \o <<59>> \o Dec(q[3])
             \o <<q[4]>>,
         [NoEvent EXCEPT !.type = "MOUSE", !.mouse_x = q[2] - 1, !.mouse_y = q[3] - 1,
                         !.mouse_button = DocMouseButton(q[1], q[4])]) :
        q \in MousePb \X (1 .. MaxCoord) \X (1 .. MaxCoord) \X {77, 109}}

InitSeq ==
    /\ tty_size = <<MaxW, MaxH>>
    /\ \E start \in RingStarts, q \in CanonSeqs \cup MouseSeqs :
        /\ ctx = CtxAt(tty_size, start)
        /\ tty_in = q.bytes
        /\ fed = q.bytes
        /\ chosen = [kind |-> q.kind, bytes |-> q.bytes, event |-> q.event,
                     start |-> start]
    /\ tui_sigwinch_received = 0
    /\ term = TermInit
    /\ out = <<>>
    /\ events = <<>>
    /\ lastPoll = NoPoll
    /\ hist = HistInit
    /\ widgets = NoWidgets
    /\ wm = NoWm
    /\ route = NoRoute

NextSeq == PollEvent

SpecSeq == InitSeq /\ [][NextSeq]_vars

\* C8: the decoder call that finds a canonical key, focus or paste sequence
\* alone in the ring returns the documented event, modifiers included, and
\* consumes all of its bytes; no second event ever comes of the sequence
C8_CanonicalSequences ==
    chosen.kind \in {"arrow", "modified", "tilde", "ss3", "focus", "paste"} =>
        /\ Len(events) <= 1
        /\ lastPoll.head = chosen.bytes =>
            /\ lastPoll.ret = 1
            /\ lastPoll.event = chosen.event
            /\ lastPoll.n = Len(chosen.bytes)
            /\ events = <<chosen.event>>
            /\ tui_input_available(ctx) = 0

\* ESC [ 1 ; 6 H, read in two pieces around the wrap of the ring, decoded as
\* HOME with shift and ctrl
C8_Witness ==
    /\ chosen.bytes = <<27, 91, 49, 59, 54, 72>>
    /\ chosen.start = TUI_INPUT_BUFFER_SIZE - 2
    /\ lastPoll.head = chosen.bytes
    /\ events = <<[KeyEvent(NoEvent, "HOME") EXCEPT !.shift = TRUE, !.ctrl = TRUE]>>

\* C9: the decoder call that finds an SGR mouse report alone in the ring
\* returns one MOUSE event at (Px - 1, Py - 1) whose button is RELEASE for a
\* final m and, for a final M, MOVE when bit 32 of Pb is set, else the wheel
\* direction for 64 and 65, else the button the low bits of Pb name
C9_MouseReports ==
    (chosen.kind = "mouse" /\ lastPoll.head = chosen.bytes) =>
        /\ lastPoll.ret = 1
        /\ lastPoll.event = chosen.event

(***************************************************************************)
(* Widgets.  A widget is named by its position in widgets; 0 is NULL       *)
(***************************************************************************)
TUI_MAX_CHILDREN == 64
TUI_MAX_HANDLERS == 8
TUI_MAX_HOTKEYS == 32
\* "tui_widget* path[64]" of tui_wm_route_event
PathCapacity == 64
\* "tui_widget* focusable[256]" and "stack[256]" of tui_widget_find_next_focusable
FocusCapacity == 256

FocusableTypes ==
    {"BUTTON", "TEXTBOX", "TEXTAREA", "CHECKBOX", "RADIO", "SLIDER", "SPINNER", "TABS",
     "LIST"}

\* the member of the state union a widget type uses, as calloc leaves it; a buffer
\* is the sequence of its bytes, the empty one standing for NULL
ZeroState(type) ==
    IF type = "TEXTBOX"
    THEN [buffer |-> <<>>, capacity |-> 0, length |-> 0, cursor |-> 0, scroll |-> 0]
    ELSE IF type = "TEXTAREA"
    THEN [lines |-> <<>>, line_count |-> 0, line_capacity |-> 0, cursor_row |-> 0,
          cursor_col |-> 0, scroll_row |-> 0, line_numbers |-> FALSE,
          editable |-> FALSE, max_line_len |-> 0,
          \* not a field: 0 when malloc has no memory to hand out
          heap |-> 0]
    ELSE IF type = "LIST"
    THEN [count |-> 0, selected |-> 0, scroll |-> 0, visible |-> 0]
    ELSE IF type = "SPINNER"
    THEN [value |-> 0, min |-> 0, max |-> 0, step |-> 0]
    ELSE IF type = "DROPDOWN"
    THEN [count |-> 0, selected |-> 0, scroll |-> 0, open |-> FALSE]
    ELSE [unused |-> 0]

tui_widget_create(type) ==
    [type |-> type, parent |-> 0, children |-> <<>>,
     state |-> ZeroState(type),
     visible |-> TRUE, enabled |-> TRUE,
     focusable |-> type \in FocusableTypes, focused |-> FALSE,
     tab_index |-> IF type \in FocusableTypes THEN 0 ELSE -1,
     x |-> 0, y |-> 0, width |-> 0, height |-> 0, has_border |-> FALSE,
     handlers |-> <<>>,
     pressed |-> FALSE]

tui_widget_set_bounds(ws, w, x, y, width, height) ==
    IF w = 0 THEN ws
    ELSE [ws EXCEPT ![w].x = x, ![w].y = y, ![w].width = width, ![w].height = height]

\* the first position of e in s, 0 when it is not there
IndexOf(s, e) ==
    IF \E i \in 1 .. Len(s) : s[i] = e
    THEN CHOOSE i \in 1 .. Len(s) : s[i] = e /\ \A j \in 1 .. i - 1 : s[j] # e
    ELSE 0

tui_widget_remove_child(ws, parent, child) ==
    IF parent = 0 \/ child = 0 THEN ws
    ELSE LET i == IndexOf(ws[parent].children, child)
         IN  IF i = 0 THEN ws
             ELSE [ws EXCEPT
                      ![parent].children =
                          SubSeq(@, 1, i - 1) \o SubSeq(@, i + 1, Len(@)),
                      ![child].parent = 0]

\* a tui_widget_add_child that leaves the child in the children of its old parent
tui_widget_add_child_keep(ws, parent, child) ==
    IF parent = 0 \/ child = 0 THEN ws
    ELSE IF Len(ws[parent].children) >= TUI_MAX_CHILDREN THEN ws
    ELSE [ws EXCEPT ![parent].children = Append(@, child), ![child].parent = parent]

tui_widget_add_child(ws, parent, child) ==
    IF parent = 0 \/ child = 0 THEN ws
    ELSE IF Len(ws[parent].children) >= TUI_MAX_CHILDREN THEN ws
    ELSE Let(IF ws[child].parent # 0
             THEN tui_widget_remove_child(ws, ws[child].parent, child)
             ELSE ws,
             LAMBDA w1 : [w1 EXCEPT ![parent].children = Append(@, child),
                                    ![child].parent = parent])

\* tui_widget_get_absolute_bounds: the x and the y it reports
RECURSIVE AbsX(_, _)
AbsX(ws, w) == IF w = 0 THEN 0 ELSE ws[w].x + AbsX(ws, ws[w].parent)
RECURSIVE AbsY(_, _)
AbsY(ws, w) == IF w = 0 THEN 0 ELSE ws[w].y + AbsY(ws, ws[w].parent)

tui_widget_contains_point(ws, w, px, py) ==
    /\ w # 0
    /\ LET x == AbsX(ws, w)
           y == AbsY(ws, w)
       IN  px >= x /\ px < x + ws[w].width /\ py >= y /\ py < y + ws[w].height

\* tui_widget_hit_test_recursive, and its loop over the children from the last
RECURSIVE tui_widget_hit_test_recursive(_, _, _, _)
RECURSIVE HitChildren(_, _, _, _, _)
HitChildren(ws, w, i, x, y) ==
    IF i < 1 THEN w
    ELSE Let(tui_widget_hit_test_recursive(ws, ws[w].children[i], x, y), LAMBDA hit :
             IF hit # 0 THEN hit ELSE HitChildren(ws, w, i - 1, x, y))

tui_widget_hit_test_recursive(ws, w, x, y) ==
    IF w = 0 THEN 0
    ELSE IF ~ws[w].visible THEN 0
    ELSE IF ~tui_widget_contains_point(ws, w, x, y) THEN 0
    ELSE HitChildren(ws, w, Len(ws[w].children), x, y)

tui_wm_hit_test(ws, m, x, y) ==
    IF m.root = 0 THEN 0 ELSE tui_widget_hit_test_recursive(ws, m.root, x, y)

(***************************************************************************)
(* Focus                                                                   *)
(***************************************************************************)
Reverse(s) == [i \in 1 .. Len(s) |-> s[Len(s) + 1 - i]]

\* one iteration of the depth-first loop of tui_widget_find_next_focusable, on its
\* variables stack and focusable
CollectStep(ws, st) ==
    LET w == st.stack[Len(st.stack)]
        pushed == SubSeq(st.stack, 1, Len(st.stack) - 1) \o Reverse(ws[w].children)
    IN  [stack |-> SubSeq(pushed, 1, Min(Len(pushed), FocusCapacity)),
         focusable |-> IF ws[w].focusable /\ ws[w].visible /\ ws[w].enabled
                       THEN Append(st.focusable, w)
                       ELSE st.focusable]

\* the next n iterations of that loop: the first half of them, then the rest
RECURSIVE CollectFocusable(_, _, _)
CollectFocusable(ws, st, n) ==
    IF n <= 0 \/ ~(Len(st.stack) > 0 /\ Len(st.focusable) < FocusCapacity) THEN st
    ELSE IF n = 1 THEN CollectStep(ws, st)
    ELSE Let(n \div 2, LAMBDA half :
         Let(CollectFocusable(ws, st, half), LAMBDA st1 :
             CollectFocusable(ws, st1, n - half)))

\* the inner loop of the bubble sort, positions j = lo .. hi - 1 (from 0): a pair out
\* of tab_index order is swapped
RECURSIVE SortPass(_, _, _, _)
SortPass(ws, f, lo, hi) ==
    IF lo >= hi THEN f
    ELSE IF hi - lo = 1
    THEN IF ws[f[lo + 1]].tab_index > ws[f[lo + 2]].tab_index
         THEN [f EXCEPT ![lo + 1] = f[lo + 2], ![lo + 2] = f[lo + 1]]
         ELSE f
    ELSE Let(lo + ((hi - lo) \div 2), LAMBDA mid :
         Let(SortPass(ws, f, lo, mid), LAMBDA f1 : SortPass(ws, f1, mid, hi)))

\* the bubble sort by tab_index, passes i = lo .. hi - 1 (from 0)
RECURSIVE SortPasses(_, _, _, _)
SortPasses(ws, f, lo, hi) ==
    IF lo >= hi THEN f
    ELSE IF hi - lo = 1 THEN SortPass(ws, f, 0, Len(f) - lo - 1)
    ELSE Let(lo + ((hi - lo) \div 2), LAMBDA mid :
         Let(SortPasses(ws, f, lo, mid), LAMBDA f1 : SortPasses(ws, f1, mid, hi)))

SortFocusable(ws, f) == SortPasses(ws, f, 0, Len(f) - 1)

\* a search that steps from the current widget to the one after the next
tui_widget_find_next_focusable_skip(ws, root, current, forward) ==
    IF root = 0 THEN 0
    ELSE Let([stack |-> <<root>>, focusable |-> <<>>], LAMBDA st :
         Let(CollectFocusable(ws, st, Len(ws)).focusable, LAMBDA found :
         Let(SortFocusable(ws, found), LAMBDA focusable :
             IF Len(focusable) = 0 THEN 0
             ELSE IF IndexOf(focusable, current) = 0 THEN focusable[1]
             ELSE focusable[((IndexOf(focusable, current) + 1) % Len(focusable)) + 1])))

tui_widget_find_next_focusable(ws, root, current, forward) ==
    IF root = 0 THEN 0
    ELSE Let([stack |-> <<root>>, focusable |-> <<>>], LAMBDA st :
         \* every iteration pops a widget that is pushed once: at most Len(ws) of them
         Let(CollectFocusable(ws, st, Len(ws)).focusable, LAMBDA found :
         Let(SortFocusable(ws, found), LAMBDA focusable :
             LET count == Len(focusable)
                 current_idx == IndexOf(focusable, current) - 1
             IN  IF count = 0 THEN 0
                 ELSE IF current_idx < 0 THEN focusable[1]
                 ELSE IF forward THEN focusable[((current_idx + 1) % count) + 1]
                 ELSE focusable[((current_idx - 1 + count) % count) + 1])))

\* a tui_wm_focus that leaves the focused flag of the old widget set
tui_wm_focus_keep(ws, m, widget) ==
    [widgets |-> IF widget # 0 THEN [ws EXCEPT ![widget].focused = TRUE] ELSE ws,
     wm |-> [m EXCEPT !.focus = widget]]

\* tui_wm_focus: [widgets, wm]
tui_wm_focus(ws, m, widget) ==
    Let(IF m.focus # 0 THEN [ws EXCEPT ![m.focus].focused = FALSE] ELSE ws, LAMBDA w1 :
        [widgets |-> IF widget # 0 THEN [w1 EXCEPT ![widget].focused = TRUE] ELSE w1,
         wm |-> [m EXCEPT !.focus = widget]])

tui_wm_focus_next(ws, m) ==
    IF m.root = 0 THEN [widgets |-> ws, wm |-> m]
    ELSE LET search_root == IF Len(m.focus_stack) > 0
                            THEN m.focus_stack[Len(m.focus_stack)]
                            ELSE m.root
         IN  Let(tui_widget_find_next_focusable(ws, search_root, m.focus, TRUE),
                 LAMBDA next : tui_wm_focus(ws, m, next))

(***************************************************************************)
(* Event routing                                                           *)
(***************************************************************************)
\* what a handler does with the event it is given
Effects == {"none", "stop", "prevent", "consume"}

\* a call of handler i of widget w (widget 0: hotkey i), and the helper it calls:
\* tui_widget_event_stop, tui_widget_event_prevent, tui_widget_event_consume
Invoke(we, w, i, effect) ==
    [we EXCEPT
        !.calls = Append(@, [w |-> w, i |-> i, phase |-> we.phase]),
        !.stopped = @ \/ effect \in {"stop", "consume"},
        !.prevented = @ \/ effect = "prevent",
        !.consumed = @ \/ effect = "consume"]

\* the loop of tui_widget_call_handlers, from handler i
RECURSIVE CallHandlersFrom(_, _, _, _, _)
CallHandlersFrom(ws, w, we, capture, i) ==
    IF ~(i <= Len(ws[w].handlers) /\ ~we.stopped) THEN we
    ELSE IF /\ ws[w].handlers[i].capture = capture
            /\ ws[w].handlers[i].event_type = we.base.type
         THEN Let(Invoke(we, w, i, ws[w].handlers[i].effect), LAMBDA we1 :
                  CallHandlersFrom(ws, w, we1, capture, i + 1))
         ELSE CallHandlersFrom(ws, w, we, capture, i + 1)

tui_widget_call_handlers(ws, w, we, capture) == CallHandlersFrom(ws, w, we, capture, 1)

\* the next n iterations of the climbing loop of tui_widget_build_path, on its
\* variables w and path (target first): the first half of them, then the rest
RECURSIVE ClimbPath(_, _, _, _)
ClimbPath(ws, st, max_depth, n) ==
    IF n <= 0 \/ ~(st.w # 0 /\ Len(st.path) < max_depth) THEN st
    ELSE IF n = 1 THEN [w |-> ws[st.w].parent, path |-> Append(st.path, st.w)]
    ELSE Let(n \div 2, LAMBDA half :
         Let(ClimbPath(ws, st, max_depth, half), LAMBDA st1 :
             ClimbPath(ws, st1, max_depth, n - half)))

\* the loop ends within max_depth iterations
tui_widget_build_path(ws, target, max_depth) ==
    Let([w |-> target, path |-> <<>>], LAMBDA st :
        Reverse(ClimbPath(ws, st, max_depth, max_depth).path))

\* a loop that goes on to the later hotkeys after a handler consumed the event
RECURSIVE CheckHotkeysFrom_all(_, _, _)
CheckHotkeysFrom_all(m, we, i) ==
    IF i > Len(m.hotkeys) THEN [consumed |-> we.consumed, we |-> we]
    ELSE IF /\ m.hotkeys[i].active
            /\ we.base.key = m.hotkeys[i].key
            /\ (m.hotkeys[i].key = "CHAR" => we.base.ch = m.hotkeys[i].ch)
         THEN Let(Invoke(we, 0, i, m.hotkeys[i].effect), LAMBDA we1 :
                  CheckHotkeysFrom_all(m, we1, i + 1))
         ELSE CheckHotkeysFrom_all(m, we, i + 1)

\* the loop of tui_wm_check_hotkeys, from hotkey i: [consumed, we]
RECURSIVE CheckHotkeysFrom(_, _, _)
CheckHotkeysFrom(m, we, i) ==
    IF i > Len(m.hotkeys) THEN [consumed |-> FALSE, we |-> we]
    ELSE LET hk == m.hotkeys[i]
             match == IF hk.key = "CHAR"
                      THEN we.base.key = "CHAR" /\ we.base.ch = hk.ch
                      ELSE we.base.key = hk.key
         IN  IF ~hk.active THEN CheckHotkeysFrom(m, we, i + 1)
             ELSE IF match
             THEN Let(Invoke(we, 0, i, hk.effect), LAMBDA we1 :
                      IF we1.consumed THEN [consumed |-> TRUE, we |-> we1]
                      ELSE CheckHotkeysFrom(m, we1, i + 1))
             ELSE CheckHotkeysFrom(m, we, i + 1)

tui_wm_check_hotkeys(m, we) ==
    IF we.base.type # "KEY" THEN [consumed |-> FALSE, we |-> we]
    ELSE CheckHotkeysFrom(m, we, 1)

tui_wm_register_hotkey(m, key, ch, ctrl, alt, shift, effect) ==
    IF Len(m.hotkeys) >= TUI_MAX_HOTKEYS THEN m
    ELSE [m EXCEPT !.hotkeys =
             Append(@, [key |-> key, ch |-> ch, ctrl |-> ctrl, alt |-> alt,
                        shift |-> shift, active |-> TRUE, effect |-> effect])]

\* tui_widget_on (capture FALSE) and tui_widget_on_capture (capture TRUE)
RegisterHandler(ws, w, type, effect, capture) ==
    IF w = 0 THEN ws
    ELSE IF Len(ws[w].handlers) >= TUI_MAX_HANDLERS THEN ws
    ELSE [ws EXCEPT ![w].handlers =
             Append(@, [event_type |-> type, capture |-> capture, effect |-> effect])]

tui_widget_on(ws, w, type, effect) == RegisterHandler(ws, w, type, effect, FALSE)

tui_widget_on_capture(ws, w, type, effect) == RegisterHandler(ws, w, type, effect, TRUE)

\* memmove(buf + dst, buf + src, n) on a buffer whose byte k is buf[k + 1]
MemMove(buf, dst, src, n) ==
    [i \in 1 .. Len(buf) |->
        IF i - 1 >= dst /\ i - 1 < dst + n THEN buf[i - dst + src] ELSE buf[i]]

\* the textbox state after a character was inserted at the cursor
TextboxInsert(t, ch) ==
    [t EXCEPT !.buffer = [MemMove(t.buffer, t.cursor + 1, t.cursor,
                                  t.length - t.cursor + 1)
                              EXCEPT ![t.cursor + 1] = ch],
              !.cursor = t.cursor + 1,
              !.length = t.length + 1]

\* a textbox that takes a character whenever length < capacity
TextboxHasRoom_full(t) == t.length < t.capacity

\* "*len < cap - 1": the buffer has room for one more character and the final NUL
TextboxHasRoom(t) == t.length < t.capacity - 1

\* [handled, widgets]
tui_widget_handle_textbox_input(ws, w, we) ==
    IF w = 0 \/ we.base.type # "KEY" THEN [handled |-> FALSE, widgets |-> ws]
    ELSE IF ws[w].state.buffer = <<>> THEN [handled |-> FALSE, widgets |-> ws]
    ELSE LET t == ws[w].state
             len == t.length
             cursor == t.cursor
             key == we.base.key
             ch == we.base.ch
             to(t1) == [handled |-> TRUE, widgets |-> [ws EXCEPT ![w].state = t1]]
         IN  IF key = "LEFT"
             THEN to(IF cursor > 0 THEN [t EXCEPT !.cursor = cursor - 1] ELSE t)
             ELSE IF key = "RIGHT"
             THEN to(IF cursor < len THEN [t EXCEPT !.cursor = cursor + 1] ELSE t)
             ELSE IF key = "HOME" THEN to([t EXCEPT !.cursor = 0])
             ELSE IF key = "END" THEN to([t EXCEPT !.cursor = len])
             ELSE IF key = "BACKSPACE"
             THEN to(IF cursor > 0
                     THEN [t EXCEPT !.buffer = MemMove(t.buffer, cursor - 1, cursor,
                                                       len - cursor + 1),
                                    !.cursor = cursor - 1,
                                    !.length = len - 1]
                     ELSE t)
             ELSE IF key = "DELETE"
             THEN to(IF cursor < len
                     THEN [t EXCEPT !.buffer = MemMove(t.buffer, cursor, cursor + 1,
                                                       len - cursor),
                                    !.length = len - 1]
                     ELSE t)
             ELSE IF key = "CHAR"
             THEN to(IF ch >= 32 /\ ch < 127 /\ TextboxHasRoom(t)
                     THEN TextboxInsert(t, ch)
                     ELSE t)
             ELSE IF key = "SPACE"
             THEN to(IF TextboxHasRoom(t) THEN TextboxInsert(t, 32) ELSE t)
             ELSE [handled |-> FALSE, widgets |-> ws]

\* a line pointer that is NULL; any other line is the sequence of its characters
NullLine == <<-1>>

StrLen(line) == IF line = NullLine THEN 0 ELSE Len(line)

\* strlen of line row (from 0) of a textarea, 0 for a NULL line
LineLen(t, row) == StrLen(t.lines[row + 1])

\* the line with the characters s inserted at column col (memmove, then the store)
LineInsert(line, col, chars) ==
    SubSeq(line, 1, col) \o chars \o SubSeq(line, col + 1, Len(line))

\* the line without the character at column col (memmove of the rest and the NUL)
LineRemove(line, col) == SubSeq(line, 1, col) \o SubSeq(line, col + 2, Len(line))

\* "for (i = from; i < line_count - 1; i++) lines[i] = lines[i + 1]"
LinesShiftUp(t, from) ==
    [i \in 1 .. Len(t.lines) |->
        IF i - 1 >= from /\ i - 1 < t.line_count - 1 THEN t.lines[i + 1] ELSE t.lines[i]]

\* a split that makes no room: the line after the cursor's is overwritten
LinesShiftDown_none(t, row) == t.lines

\* "for (i = line_count; i > row + 1; i--) lines[i] = lines[i - 1]"
LinesShiftDown(t, row) ==
    [i \in 1 .. Len(t.lines) |->
        IF i - 1 > row + 1 /\ i - 1 <= t.line_count THEN t.lines[i - 1] ELSE t.lines[i]]

\* "if (*row < *scroll_row) *scroll_row = *row"
ScrollUpTo(t) ==
    IF t.cursor_row < t.scroll_row THEN [t EXCEPT !.scroll_row = t.cursor_row] ELSE t

\* "if (*row >= *scroll_row + visible_rows) *scroll_row = *row - visible_rows + 1"
ScrollDownTo(t, visible_rows) ==
    IF t.cursor_row >= t.scroll_row + visible_rows
    THEN [t EXCEPT !.scroll_row = t.cursor_row - visible_rows + 1]
    ELSE t

\* "if (*col > new_line_len) *col = new_line_len", for the line the cursor is on
ClampCol(t) ==
    IF t.cursor_col > LineLen(t, t.cursor_row)
    THEN [t EXCEPT !.cursor_col = LineLen(t, t.cursor_row)]
    ELSE t

\* the mouse branch: the state after the event, <<>> when it is not handled
TextareaMouse(t, ev, ax, ay, visible_rows) ==
    LET gutter_width == IF t.line_numbers THEN 5 ELSE 0
        click_row == ev.mouse_y - ay + t.scroll_row
        click_col == ev.mouse_x - ax - gutter_width
        max_scroll == Max(t.line_count - visible_rows, 0)
    IN  IF ev.mouse_button = "LEFT"
        THEN IF click_row >= 0 /\ click_row < t.line_count
             THEN ClampCol([t EXCEPT !.cursor_row = click_row,
                                     !.cursor_col = Max(click_col, 0)])
             ELSE t
        ELSE IF ev.mouse_button = "WHEEL_UP"
        THEN [t EXCEPT !.scroll_row = Max(t.scroll_row - 3, 0)]
        ELSE IF ev.mouse_button = "WHEEL_DOWN"
        THEN [t EXCEPT !.scroll_row = Min(t.scroll_row + 3, max_scroll)]
        ELSE <<>>

\* the navigation keys: the state after the key, <<>> when it is none of them
TextareaNavigate(t, ev, visible_rows) ==
    LET row == t.cursor_row
        col == t.cursor_col
        key == ev.key
    IN  IF key = "UP"
        THEN IF row > 0
             THEN ScrollUpTo(ClampCol([t EXCEPT !.cursor_row = row - 1]))
             ELSE t
        ELSE IF key = "DOWN"
        THEN IF row < t.line_count - 1
             THEN ScrollDownTo(ClampCol([t EXCEPT !.cursor_row = row + 1]), visible_rows)
             ELSE t
        ELSE IF key = "LEFT"
        THEN IF col > 0 THEN [t EXCEPT !.cursor_col = col - 1]
             ELSE IF row > 0
             THEN ScrollUpTo([t EXCEPT !.cursor_row = row - 1,
                                       !.cursor_col = LineLen(t, row - 1)])
             ELSE t
        ELSE IF key = "RIGHT"
        THEN IF col < LineLen(t, row) THEN [t EXCEPT !.cursor_col = col + 1]
             ELSE IF row < t.line_count - 1
             THEN ScrollDownTo([t EXCEPT !.cursor_row = row + 1, !.cursor_col = 0],
                               visible_rows)
             ELSE t
        ELSE IF key = "HOME"
        THEN IF ev.ctrl
             THEN [t EXCEPT !.cursor_row = 0, !.cursor_col = 0, !.scroll_row = 0]
             ELSE [t EXCEPT !.cursor_col = 0]
        ELSE IF key = "END"
        THEN IF ev.ctrl
             THEN ScrollDownTo([t EXCEPT !.cursor_row = t.line_count - 1,
                                         !.cursor_col = LineLen(t, t.line_count - 1)],
                               visible_rows)
             ELSE [t EXCEPT !.cursor_col = LineLen(t, row)]
        ELSE IF key = "PAGEUP"
        THEN ClampCol([t EXCEPT !.cursor_row = Max(row - visible_rows, 0),
                                !.scroll_row = Max(t.scroll_row - visible_rows, 0)])
        ELSE IF key = "PAGEDOWN"
        THEN ClampCol([t EXCEPT
                 !.cursor_row = IF row + visible_rows >= t.line_count
                                THEN t.line_count - 1
                                ELSE row + visible_rows,
                 !.scroll_row = Min(t.scroll_row + visible_rows,
                                    Max(t.line_count - visible_rows, 0))])
        ELSE <<>>

\* "case TUI_KEY_ENTER": the line is split at the cursor
TextareaEnter(t, max_line_len, visible_rows) ==
    LET row == t.cursor_row
        col == t.cursor_col
        current_line == t.lines[row + 1]
        after_cursor == IF current_line # NullLine
                        THEN SubSeq(current_line, col + 1, Len(current_line))
                        ELSE <<>>
        \* strncpy(new_line, after_cursor, max_line_len - 1) and the final NUL
        new_line == SubSeq(after_cursor, 1, Min(Len(after_cursor), max_line_len - 1))
        shifted == LinesShiftDown(t, row)
    IN  IF ~(t.line_count < t.line_capacity) THEN t
        ELSE IF t.heap <= 0 THEN [t EXCEPT !.lines = shifted]
        ELSE ScrollDownTo(
                 [t EXCEPT !.lines = [shifted EXCEPT
                                         ![row + 2] = new_line,
                                         ![row + 1] = IF current_line # NullLine
                                                      THEN SubSeq(current_line, 1, col)
                                                      ELSE NullLine],
                           !.line_count = t.line_count + 1,
                           !.cursor_row = row + 1,
                           !.cursor_col = 0],
                 visible_rows)

\* the editing keys: the state after the key, <<>> when it is none of them
TextareaEdit(t, ev, max_line_len, visible_rows) ==
    LET row == t.cursor_row
        col == t.cursor_col
        key == ev.key
        current_line == t.lines[row + 1]
        current_line_len == StrLen(current_line)
        insert(chars) == [t EXCEPT !.lines[row + 1] = LineInsert(current_line, col, chars),
                                   !.cursor_col = col + Len(chars)]
    IN  IF key = "BACKSPACE"
        THEN IF col > 0 /\ current_line # NullLine
             THEN [t EXCEPT !.lines[row + 1] = LineRemove(current_line, col - 1),
                            !.cursor_col = col - 1]
             ELSE IF col = 0 /\ row > 0
             THEN LET prev_line == t.lines[row]
                      prev_len == StrLen(prev_line)
                      joined == IF current_line # NullLine /\ prev_line # NullLine
                                THEN [t EXCEPT !.lines[row] = prev_line \o current_line]
                                ELSE t
                  IN  IF prev_len + current_line_len < max_line_len
                      THEN ScrollUpTo([joined EXCEPT
                                          !.lines = LinesShiftUp(joined, row),
                                          !.line_count = t.line_count - 1,
                                          !.cursor_row = row - 1,
                                          !.cursor_col = prev_len])
                      ELSE t
             ELSE t
        ELSE IF key = "DELETE"
        THEN IF current_line # NullLine /\ col < current_line_len
             THEN [t EXCEPT !.lines[row + 1] = LineRemove(current_line, col)]
             ELSE IF row < t.line_count - 1
             THEN LET next_line == t.lines[row + 2]
                      joined == [t EXCEPT !.lines[row + 1] =
                                    current_line \o (IF next_line # NullLine
                                                     THEN next_line ELSE <<>>)]
                  IN  IF current_line_len + StrLen(next_line) < max_line_len
                         /\ current_line # NullLine
                      THEN [joined EXCEPT !.lines = LinesShiftUp(joined, row + 1),
                                          !.line_count = t.line_count - 1]
                      ELSE t
             ELSE t
        ELSE IF key = "ENTER" THEN TextareaEnter(t, max_line_len, visible_rows)
        ELSE IF key = "TAB"
        THEN IF current_line # NullLine /\ current_line_len + 4 < max_line_len
             THEN insert(<<32, 32, 32, 32>>)
             ELSE t
        ELSE IF key = "SPACE"
        THEN IF current_line # NullLine /\ current_line_len < max_line_len - 1
             THEN insert(<<32>>)
             ELSE t
        ELSE IF key = "CHAR"
        THEN IF current_line # NullLine /\ current_line_len < max_line_len - 1
                /\ ev.ch >= 32
             THEN IF ev.ch % 256 = 0
                  \* "current_line[*col] = (char)e->base.ch" stores the NUL: the string
                  \* ends at the cursor, and "(*col)++" moves the cursor past its end
                  THEN [t EXCEPT !.lines[row + 1] = SubSeq(current_line, 1, col),
                                 !.cursor_col = col + 1]
                  ELSE insert(<<ev.ch % 256>>)
             ELSE t
        ELSE <<>>

\* [handled, widgets]
tui_widget_handle_textarea_input(ws, w, we) ==
    IF w = 0 \/ ws[w].state.lines = <<>> \/ ws[w].state.line_count = 0
    THEN [handled |-> FALSE, widgets |-> ws]
    ELSE LET t == ws[w].state
             max_line_len == IF t.max_line_len > 0 THEN t.max_line_len ELSE 256
             visible_rows == ws[w].height - (IF ws[w].has_border THEN 2 ELSE 0)
             after(t1) == IF t1 = <<>> THEN [handled |-> FALSE, widgets |-> ws]
                          ELSE [handled |-> TRUE,
                                widgets |-> [ws EXCEPT ![w].state = t1]]
         IN  IF we.base.type = "MOUSE"
             THEN after(TextareaMouse(t, we.base, AbsX(ws, w), AbsY(ws, w), visible_rows))
             ELSE IF we.base.type # "KEY" THEN [handled |-> FALSE, widgets |-> ws]
             ELSE Let(TextareaNavigate(t, we.base, visible_rows), LAMBDA t1 :
                      IF t1 # <<>> THEN after(t1)
                      ELSE IF ~t.editable THEN [handled |-> FALSE, widgets |-> ws]
                      ELSE after(TextareaEdit(t, we.base, max_line_len, visible_rows)))

\* a list whose last item is taken to be item count
ListLast_count(count) == count

\* "count - 1", the last item of a list
ListLast(count) == count - 1

\* "if (*sel >= *scr + visible) *scr = *sel - visible + 1"
ListScrollDownTo(l) ==
    IF l.selected >= l.scroll + l.visible
    THEN [l EXCEPT !.scroll = l.selected - l.visible + 1]
    ELSE l

\* "if (*sel < *scr) *scr = *sel"
ListScrollUpTo(l) ==
    IF l.selected < l.scroll THEN [l EXCEPT !.scroll = l.selected] ELSE l

\* [handled, widgets]
tui_widget_handle_list_input(ws, w, we) ==
    IF w = 0 THEN [handled |-> FALSE, widgets |-> ws]
    ELSE LET l == ws[w].state
             key == we.base.key
             to(l1) == [handled |-> TRUE, widgets |-> [ws EXCEPT ![w].state = l1]]
             clicked_item == l.scroll + (we.base.mouse_y - AbsY(ws, w))
             max_scroll == Max(l.count - l.visible, 0)
         IN  IF we.base.type = "KEY" /\ key = "UP"
             THEN to(IF l.selected > 0
                     THEN ListScrollUpTo([l EXCEPT !.selected = l.selected - 1])
                     ELSE l)
             ELSE IF we.base.type = "KEY" /\ key = "DOWN"
             THEN to(IF l.selected < ListLast(l.count)
                     THEN ListScrollDownTo([l EXCEPT !.selected = l.selected + 1])
                     ELSE l)
             ELSE IF we.base.type = "KEY" /\ key = "PAGEUP"
             THEN to(ListScrollUpTo([l EXCEPT !.selected = Max(l.selected - l.visible, 0)]))
             ELSE IF we.base.type = "KEY" /\ key = "PAGEDOWN"
             THEN to(ListScrollDownTo(
                         [l EXCEPT !.selected = IF l.selected + l.visible >= l.count
                                                THEN ListLast(l.count)
                                                ELSE l.selected + l.visible]))
             ELSE IF we.base.type = "KEY" /\ key = "HOME"
             THEN to([l EXCEPT !.selected = 0, !.scroll = 0])
             ELSE IF we.base.type = "KEY" /\ key = "END"
             THEN to(IF ListLast(l.count) >= l.visible
                     THEN [l EXCEPT !.selected = ListLast(l.count),
                                    !.scroll = ListLast(l.count) - l.visible + 1]
                     ELSE [l EXCEPT !.selected = ListLast(l.count)])
             ELSE IF we.base.type = "MOUSE" /\ we.base.mouse_button = "LEFT"
                     /\ clicked_item >= 0 /\ clicked_item < l.count
             THEN to([l EXCEPT !.selected = clicked_item])
             ELSE IF we.base.type = "MOUSE" /\ we.base.mouse_button = "WHEEL_UP"
             THEN to(IF l.scroll > 0 THEN [l EXCEPT !.scroll = l.scroll - 1] ELSE l)
             ELSE IF we.base.type = "MOUSE" /\ we.base.mouse_button = "WHEEL_DOWN"
             THEN to(IF l.scroll < max_scroll THEN [l EXCEPT !.scroll = l.scroll + 1]
                     ELSE l)
             ELSE [handled |-> FALSE, widgets |-> ws]

\* "*val -= step; if (*val < min) *val = min"
SpinnerDown(sp, step) ==
    [sp EXCEPT !.value = IF sp.value - step < sp.min THEN sp.min ELSE sp.value - step]

\* "*val += step; if (*val > max) *val = max"
SpinnerUp(sp, step) ==
    [sp EXCEPT !.value = IF sp.value + step > sp.max THEN sp.max ELSE sp.value + step]

\* [handled, widgets]
tui_widget_handle_spinner_input(ws, w, we) ==
    IF w = 0 THEN [handled |-> FALSE, widgets |-> ws]
    ELSE LET sp == ws[w].state
             step == IF sp.step <= 0 THEN 1 ELSE sp.step
             to(sp1) == [handled |-> TRUE, widgets |-> [ws EXCEPT ![w].state = sp1]]
             aw == ws[w].width
             rel_x == we.base.mouse_x - AbsX(ws, w)
         IN  IF we.base.type = "KEY" /\ we.base.key \in {"LEFT", "DOWN"}
             THEN to(SpinnerDown(sp, step))
             ELSE IF we.base.type = "KEY" /\ we.base.key \in {"RIGHT", "UP"}
             THEN to(SpinnerUp(sp, step))
             ELSE IF we.base.type = "MOUSE" /\ we.base.mouse_button = "LEFT"
             THEN to(IF rel_x < aw \div 3 THEN SpinnerDown(sp, step)
                     ELSE IF rel_x > (2 * aw) \div 3 THEN SpinnerUp(sp, step)
                     ELSE sp)
             ELSE [handled |-> FALSE, widgets |-> ws]

\* [handled, widgets]
tui_widget_handle_button_input(ws, w, we) ==
    LET activate ==
            \/ we.base.type = "KEY" /\ we.base.key \in {"ENTER", "SPACE"}
            \/ we.base.type = "MOUSE" /\ we.base.mouse_button = "LEFT"
    IN  IF activate
        THEN [handled |-> TRUE, widgets |-> [ws EXCEPT ![w].pressed = TRUE]]
        ELSE [handled |-> FALSE, widgets |-> ws]

\* [handled, widgets]
tui_widget_handle_dropdown_input(ws, w, we) ==
    IF w = 0 THEN [handled |-> FALSE, widgets |-> ws]
    ELSE LET d == ws[w].state
             to(d1) == [handled |-> TRUE, widgets |-> [ws EXCEPT ![w].state = d1]]
             clicked_row == we.base.mouse_y - AbsY(ws, w) - 1
         IN  IF we.base.type = "KEY"
             THEN IF d.open
                  THEN IF we.base.key = "UP"
                       THEN to(IF d.selected > 0 THEN [d EXCEPT !.selected = @ - 1] ELSE d)
                       ELSE IF we.base.key = "DOWN"
                       THEN to(IF d.selected < d.count - 1
                               THEN [d EXCEPT !.selected = @ + 1] ELSE d)
                       ELSE IF we.base.key \in {"ENTER", "SPACE", "ESC"}
                       THEN to([d EXCEPT !.open = FALSE])
                       ELSE [handled |-> FALSE, widgets |-> ws]
                  ELSE IF we.base.key \in {"ENTER", "SPACE"}
                       THEN to([d EXCEPT !.open = TRUE])
                       ELSE [handled |-> FALSE, widgets |-> ws]
             ELSE IF we.base.type = "MOUSE" /\ we.base.mouse_button = "LEFT"
             THEN IF d.open
                  THEN IF clicked_row >= 0 /\ clicked_row < d.count /\ clicked_row < 5
                       THEN to([d EXCEPT !.selected = d.scroll + clicked_row,
                                         !.open = FALSE])
                       ELSE to([d EXCEPT !.open = FALSE])
                  ELSE to([d EXCEPT !.open = TRUE])
             ELSE [handled |-> FALSE, widgets |-> ws]

tui_widget_handle_default_input(ws, w, we) ==
    IF w = 0 \/ ~ws[w].enabled THEN [handled |-> FALSE, widgets |-> ws]
    ELSE IF we.phase # "TARGET" THEN [handled |-> FALSE, widgets |-> ws]
    ELSE IF ws[w].type = "BUTTON" THEN tui_widget_handle_button_input(ws, w, we)
    ELSE IF ws[w].type = "TEXTBOX" THEN tui_widget_handle_textbox_input(ws, w, we)
    ELSE IF ws[w].type = "TEXTAREA" THEN tui_widget_handle_textarea_input(ws, w, we)
    ELSE IF ws[w].type = "LIST" THEN tui_widget_handle_list_input(ws, w, we)
    ELSE IF ws[w].type = "SPINNER" THEN tui_widget_handle_spinner_input(ws, w, we)
    ELSE IF ws[w].type = "DROPDOWN" THEN tui_widget_handle_dropdown_input(ws, w, we)
    ELSE [handled |-> FALSE, widgets |-> ws]

\* "CAPTURE PHASE: root -> target": the iterations i = lo .. hi - 1 of the loop
\* "for (i = 0; i < path_len - 1 && !we.stopped; i++)", first half then second half
RECURSIVE CaptureLoop(_, _, _, _, _)
CaptureLoop(ws, path, we, lo, hi) ==
    IF lo >= hi \/ we.stopped THEN we
    ELSE IF hi - lo = 1 THEN tui_widget_call_handlers(ws, path[lo + 1], we, TRUE)
    ELSE Let((lo + hi) \div 2, LAMBDA mid :
         Let(CaptureLoop(ws, path, we, lo, mid), LAMBDA we1 :
             CaptureLoop(ws, path, we1, mid, hi)))

\* "BUBBLE PHASE: target -> root": the iterations i = hi, hi - 1 .. lo + 1 of the loop
\* "for (i = path_len - 2; i >= 0 && !we.stopped; i--)", upper half then lower half
RECURSIVE BubbleLoop(_, _, _, _, _)
BubbleLoop(ws, path, we, lo, hi) ==
    IF lo >= hi \/ we.stopped THEN we
    ELSE IF hi - lo = 1 THEN tui_widget_call_handlers(ws, path[hi + 1], we, FALSE)
    ELSE Let((lo + hi) \div 2, LAMBDA mid :
         Let(BubbleLoop(ws, path, we, mid, hi), LAMBDA we1 :
             BubbleLoop(ws, path, we1, lo, mid)))

\* "TARGET PHASE": [widgets, we]
TargetPhase(ws, target, we) ==
    IF we.stopped THEN [widgets |-> ws, we |-> we]
    ELSE Let(tui_widget_call_handlers(ws, target, [we EXCEPT !.phase = "TARGET"], TRUE),
             LAMBDA we1 :
         Let(IF ~we1.stopped /\ ~we1.prevented
             THEN Let(tui_widget_handle_default_input(ws, target, we1), LAMBDA d :
                      [widgets |-> d.widgets,
                       we |-> [we1 EXCEPT
                                  !.calls = Append(@, [w |-> target, i |-> 0,
                                                       phase |-> "DEFAULT"]),
                                  !.consumed = @ \/ d.handled]])
             ELSE [widgets |-> ws, we |-> we1],
             LAMBDA r :
                 [widgets |-> r.widgets,
                  we |-> tui_widget_call_handlers(r.widgets, target, r.we, FALSE)]))

\* the three phases of tui_wm_route_event, once the target is known
Dispatch(ws, m, target, we0) ==
    Let(tui_widget_build_path(ws, target, PathCapacity), LAMBDA path :
    Let([we0 EXCEPT !.target = target, !.phase = "CAPTURE"], LAMBDA we00 :
    Let(CaptureLoop(ws, path, we00, 0, Len(path) - 1), LAMBDA we1 :
    Let(TargetPhase(ws, target, we1), LAMBDA t :
    Let([t.we EXCEPT !.phase = "BUBBLE"], LAMBDA we2 :
        [widgets |-> t.widgets, wm |-> m,
         we |-> BubbleLoop(t.widgets, path, we2, -1, Len(path) - 2)])))))

\* "Determine target": [widgets, wm, target]
DetermineTarget(ws, m, event) ==
    IF event.type = "MOUSE"
    THEN Let(tui_wm_hit_test(ws, m, event.mouse_x, event.mouse_y), LAMBDA target :
         Let([m EXCEPT !.hover = target], LAMBDA m1 :
             IF event.mouse_button = "LEFT" /\ target # 0 /\ ws[target].focusable
             THEN Let(tui_wm_focus(ws, m1, target), LAMBDA f :
                      [widgets |-> f.widgets, wm |-> f.wm, target |-> target])
             ELSE [widgets |-> ws, wm |-> m1, target |-> target]))
    ELSE [widgets |-> ws, wm |-> m, target |-> m.focus]

\* [widgets, wm, we]
tui_wm_route_event(ws, m, event) ==
    LET we0 == [NoRoute EXCEPT !.base = event]
    IN  IF event.type = "KEY" /\ event.key = "TAB"
        THEN Let(tui_wm_focus_next(ws, m), LAMBDA f :
                 [widgets |-> f.widgets, wm |-> f.wm, we |-> we0])
        ELSE Let(tui_wm_check_hotkeys(m, we0), LAMBDA h :
             IF h.consumed THEN [widgets |-> ws, wm |-> m, we |-> h.we]
             ELSE Let(DetermineTarget(ws, m, event), LAMBDA d :
                  Let(IF d.target = 0 THEN d.wm.root ELSE d.target, LAMBDA target :
                      IF target = 0 THEN [widgets |-> d.widgets, wm |-> d.wm, we |-> h.we]
                      ELSE Dispatch(d.widgets, d.wm, target, h.we))))

(***************************************************************************)
(* The router: a widget tree, handlers and hotkeys registered on it, and   *)
(* events routed through it                                                *)
(***************************************************************************)
\* handlers registered in a run, over all widgets
MaxHandlers == 2
\* hotkeys registered in a run
MaxHotkeys == 1

\* n widgets, each the only child of the one before and the last one a button, as
\* tui_widget_create and tui_widget_add_child leave them (no bounds set yet)
Chain(n) ==
    [k \in 1 .. n |->
        [tui_widget_create(IF k = n THEN "BUTTON" ELSE "CONTAINER") EXCEPT
            !.parent = k - 1,
            !.children = IF k < n THEN <<k + 1>> ELSE <<>>]]

\* a root that holds a container and a button beside it, and a button in the container
Fan ==
    LET w0 == <<tui_widget_create("CONTAINER"), tui_widget_create("CONTAINER"),
                tui_widget_create("BUTTON"), tui_widget_create("BUTTON")>>
        w1 == tui_widget_set_bounds(w0, 1, 0, 0, MaxCoord, 1)
        w2 == tui_widget_set_bounds(w1, 2, 0, 0, 1, 1)
        w3 == tui_widget_set_bounds(w2, 3, 1, 0, 1, 1)
        w4 == tui_widget_set_bounds(w3, 4, 0, 0, 1, 1)
        w5 == tui_widget_add_child(w4, 1, 2)
        w6 == tui_widget_add_child(w5, 1, 3)
    IN  tui_widget_add_child(w6, 2, 4)

Trees == {Fan, Chain(PathCapacity + 1)}

\* the widgets an application of the model registers handlers on
Hooks(ws) == {1, 2, Len(ws)}

HandlerTypes == {"KEY"}

RouteEvents ==
    {KeyEvent(NoEvent, "ENTER"),
     KeyEvent(NoEvent, "TAB"),
     [NoEvent EXCEPT !.type = "MOUSE", !.mouse_button = "LEFT"]}

HandlerCount(ws) == Let(ws, LAMBDA w : LET RECURSIVE Sum(_)
                                           Sum(k) == IF k = 0 THEN 0
                                                     ELSE Len(w[k].handlers) + Sum(k - 1)
                                       IN  Sum(Len(w)))

InitRoute ==
    /\ ctx = tui_create(<<MaxW, MaxH>>)
    /\ tty_in = <<>>
    /\ tty_size = <<MaxW, MaxH>>
    /\ tui_sigwinch_received = 0
    /\ term = TermInit
    /\ out = <<>>
    /\ events = <<>>
    /\ fed = <<>>
    /\ lastPoll = NoPoll
    /\ chosen = NoChoice
    /\ hist = HistInit
    /\ widgets \in Trees
    /\ wm = [NoWm EXCEPT !.root = 1]
    /\ route = NoRoute

Registered(ws) ==
    /\ widgets' = ws
    /\ route' = NoRoute
    /\ UNCHANGED <<ctx, tty_in, tty_size, tui_sigwinch_received, term, out, events, fed,
                   lastPoll, chosen, hist, wm>>

WidgetOn ==
    /\ HandlerCount(widgets) < MaxHandlers
    /\ \E w \in Hooks(widgets), type \in HandlerTypes, effect \in Effects :
           Registered(tui_widget_on(widgets, w, type, effect))

WidgetOnCapture ==
    /\ HandlerCount(widgets) < MaxHandlers
    /\ \E w \in Hooks(widgets), type \in HandlerTypes, effect \in Effects :
           Registered(tui_widget_on_capture(widgets, w, type, effect))

RegisterHotkey ==
    /\ Len(wm.hotkeys) < MaxHotkeys
    /\ \E effect \in Effects \ {"none"} :
           /\ wm' = tui_wm_register_hotkey(wm, "ENTER", 0, FALSE, FALSE, FALSE, effect)
           /\ route' = NoRoute
           /\ UNCHANGED <<ctx, tty_in, tty_size, tui_sigwinch_received, term, out, events,
                          fed, lastPoll, chosen, hist, widgets>>

RouteEvent ==
    \E event \in RouteEvents :
        \E r \in {tui_wm_route_event(widgets, wm, event)} :
            /\ widgets' = r.widgets
            /\ wm' = r.wm
            /\ route' = r.we
            /\ UNCHANGED <<ctx, tty_in, tty_size, tui_sigwinch_received, term, out,
                           events, fed, lastPoll, chosen, hist>>

NextRoute == WidgetOn \/ WidgetOnCapture \/ RegisterHotkey \/ RouteEvent

SpecRoute == InitRoute /\ [][NextRoute]_vars

(***************************************************************************)
(* The order of the handlers of one routed event                           *)
(***************************************************************************)
\* the widget and handler of every call the router made to a widget's handler or
\* default behaviour (handler 0), in the order of the calls
RECURSIVE WidgetCalls(_)
WidgetCalls(calls) ==
    IF calls = <<>> THEN <<>>
    ELSE IF Head(calls).w = 0 THEN WidgetCalls(Tail(calls))
    ELSE <<<<Head(calls).w, Head(calls).i>>>> \o WidgetCalls(Tail(calls))

\* t and its ancestors, from the root down
RECURSIVE RootDown(_, _)
RootDown(ws, w) == IF w = 0 THEN <<>> ELSE Append(RootDown(ws, ws[w].parent), w)

\* the handlers of w for one phase and event kind, in registration order
HandlersOf(ws, w, type, capture) ==
    LET RECURSIVE From(_)
        From(i) == IF i > Len(ws[w].handlers) THEN <<>>
                   ELSE IF /\ ws[w].handlers[i].capture = capture
                           /\ ws[w].handlers[i].event_type = type
                        THEN <<<<w, i>>>> \o From(i + 1)
                        ELSE From(i + 1)
    IN  From(1)

RECURSIVE HandlersAlong(_, _, _, _)
HandlersAlong(ws, path, type, capture) ==
    IF path = <<>> THEN <<>>
    ELSE HandlersOf(ws, Head(path), type, capture)
             \o HandlersAlong(ws, Tail(path), type, capture)

\* everything that may run for an event of this kind at target t, in the documented
\* order
DocOrder(ws, t, type) ==
    LET ancestors == SubSeq(RootDown(ws, t), 1, Len(RootDown(ws, t)) - 1)
    IN  HandlersAlong(ws, ancestors, type, TRUE)
            \o HandlersOf(ws, t, type, TRUE)
            \o <<<<t, 0>>>>
            \o HandlersOf(ws, t, type, FALSE)
            \o HandlersAlong(ws, Reverse(ancestors), type, FALSE)

\* what runs of it: nothing after a stop, and no default once it is prevented
RECURSIVE DocRun(_, _, _, _)
DocRun(ws, order, stopped, prevented) ==
    IF order = <<>> \/ stopped THEN <<>>
    ELSE LET w == Head(order)[1]
             i == Head(order)[2]
         IN  IF i = 0
             THEN (IF prevented THEN <<>> ELSE <<Head(order)>>)
                      \o DocRun(ws, Tail(order), stopped, prevented)
             ELSE <<Head(order)>>
                      \o DocRun(ws, Tail(order),
                                ws[w].handlers[i].effect \in {"stop", "consume"},
                                prevented \/ ws[w].handlers[i].effect = "prevent")

\* what the hotkey handlers that ran before the dispatch left in the event
HotkeyEffects(calls) == {wm.hotkeys[calls[k].i].effect : k \in {j \in 1 .. Len(calls) : calls[j].w = 0}}

\* C10: for every event dispatched to a target, the calls made are, in this order,
\* the capture handlers of the ancestors from the root down, the capture handlers of
\* the target, its default behaviour unless prevented, its bubble handlers, and the
\* bubble handlers of the ancestors from the parent up to the root, each widget's
\* in registration order, and nothing runs after a handler stopped the event
C10_HandlerOrder ==
    route.target # 0 =>
        WidgetCalls(route.calls) =
            DocRun(widgets, DocOrder(widgets, route.target, route.base.type),
                   HotkeyEffects(route.calls) \cap {"stop", "consume"} # {},
                   "prevent" \in HotkeyEffects(route.calls))

\* the same order holds whenever the target and its ancestors fit the path buffer
C10_HandlerOrderWithinPath ==
    (route.target # 0 /\ Len(RootDown(widgets, route.target)) <= PathCapacity) =>
        WidgetCalls(route.calls) =
            DocRun(widgets, DocOrder(widgets, route.target, route.base.type),
                   HotkeyEffects(route.calls) \cap {"stop", "consume"} # {},
                   "prevent" \in HotkeyEffects(route.calls))

\* a dispatch in which handlers of two widgets and the default behaviour ran
C10_WithinPathWitness ==
    /\ route.target # 0
    /\ Len(RootDown(widgets, route.target)) <= PathCapacity
    /\ Len(route.calls) >= 3
    /\ \E k \in 1 .. Len(route.calls) : route.calls[k].phase = "DEFAULT"
    /\ \E k \in 1 .. Len(route.calls) : route.calls[k].phase = "CAPTURE"

(***************************************************************************)
(* Hotkeys: an application registers hotkeys and routes key events to a    *)
(* focused button whose tree has handlers for them                         *)
(***************************************************************************)
\* hotkeys registered in a run of the hotkey specification
MaxHotkeyTable == 2

HotkeyKeys == {<<"ENTER", 0>>, <<"CHAR", 97>>, <<"CHAR", 98>>}

HotkeyEvents ==
    {KeyEvent(NoEvent, "ENTER"),
     [KeyEvent(NoEvent, "CHAR") EXCEPT !.ch = 97],
     [KeyEvent(NoEvent, "CHAR") EXCEPT !.ch = 98],
     KeyEvent(NoEvent, "UP")}

InitHotkey ==
    /\ ctx = tui_create(<<MaxW, MaxH>>)
    /\ tty_in = <<>>
    /\ tty_size = <<MaxW, MaxH>>
    /\ tui_sigwinch_received = 0
    /\ term = TermInit
    /\ out = <<>>
    /\ events = <<>>
    /\ fed = <<>>
    /\ lastPoll = NoPoll
    /\ chosen = NoChoice
    /\ hist = HistInit
    /\ \E target \in {3, 4}, e1 \in Effects :
        \E f \in {tui_wm_focus(tui_widget_on(tui_widget_on_capture(Fan, 1, "KEY", e1),
                                             target, "KEY", "none"),
                               [NoWm EXCEPT !.root = 1], target)} :
            /\ widgets = f.widgets
            /\ wm = f.wm
    /\ route = NoRoute

RegisterHotkeyKey ==
    /\ Len(wm.hotkeys) < MaxHotkeyTable
    /\ \E k \in HotkeyKeys, effect \in Effects :
           /\ wm' = tui_wm_register_hotkey(wm, k[1], k[2], FALSE, FALSE, FALSE, effect)
           /\ route' = NoRoute
           /\ UNCHANGED <<ctx, tty_in, tty_size, tui_sigwinch_received, term, out, events,
                          fed, lastPoll, chosen, hist, widgets>>

RouteKey ==
    \E event \in HotkeyEvents :
        \E r \in {tui_wm_route_event(widgets, wm, event)} :
            /\ widgets' = r.widgets
            /\ wm' = r.wm
            /\ route' = r.we
            /\ UNCHANGED <<ctx, tty_in, tty_size, tui_sigwinch_received, term, out,
                           events, fed, lastPoll, chosen, hist>>

NextHotkey == RegisterHotkeyKey \/ RouteKey

SpecHotkey == InitHotkey /\ [][NextHotkey]_vars

\* the hotkeys the documentation says are tried for a key event, in order: the
\* active ones that match, up to the first whose handler consumes the event
RECURSIVE DocHotkeysTried(_, _, _)
DocHotkeysTried(hks, ev, i) ==
    IF i > Len(hks) THEN <<>>
    ELSE IF /\ hks[i].active
            /\ hks[i].key = ev.key
            /\ (hks[i].key = "CHAR" => hks[i].ch = ev.ch)
         THEN IF hks[i].effect = "consume" THEN <<i>>
              ELSE <<i>> \o DocHotkeysTried(hks, ev, i + 1)
         ELSE DocHotkeysTried(hks, ev, i + 1)

\* the hotkeys whose handlers the router called, in the order of the calls
RECURSIVE HotkeyCalls(_)
HotkeyCalls(calls) ==
    IF calls = <<>> THEN <<>>
    ELSE IF Head(calls).w = 0 THEN <<Head(calls).i>> \o HotkeyCalls(Tail(calls))
    ELSE HotkeyCalls(Tail(calls))

\* the documented hotkey run ends with a handler that consumes the event
DocConsumed(hks, ev) ==
    /\ DocHotkeysTried(hks, ev, 1) # <<>>
    /\ hks[DocHotkeysTried(hks, ev, 1)[Len(DocHotkeysTried(hks, ev, 1))]].effect
           = "consume"

\* C11: when a key event is routed the matching active hotkeys are called in
\* registration order, and once one of them consumes the event nothing else is
\* called (no later hotkey, no widget handler, no default behaviour) and neither
\* the widgets nor the manager change
C11_HotkeyConsumeEndsRouting ==
    [][(route'.base.type = "KEY" /\ route'.base.key # "TAB") =>
           /\ HotkeyCalls(route'.calls) = DocHotkeysTried(wm.hotkeys, route'.base, 1)
           /\ DocConsumed(wm.hotkeys, route'.base) =>
                  /\ Len(route'.calls) = Len(HotkeyCalls(route'.calls))
                  /\ widgets' = widgets
                  /\ wm' = wm]_vars

\* a key event that two hotkeys matched, the second of which consumed it, routed
\* in a tree whose root and target have handlers for it
C11_Witness ==
    /\ route.base.type = "KEY"
    /\ route.consumed
    /\ Len(wm.hotkeys) = 2
    /\ HotkeyCalls(route.calls) = <<1, 2>>
    /\ \E w \in 1 .. Len(widgets) : widgets[w].handlers # <<>>

(***************************************************************************)
(* Focus: an application moves the focus over a form with a modal part     *)
(***************************************************************************)
TUI_MAX_FOCUS_STACK == 16

FocusSearchRoot(m) ==
    IF Len(m.focus_stack) > 0 THEN m.focus_stack[Len(m.focus_stack)] ELSE m.root

tui_wm_focus_prev(ws, m) ==
    IF m.root = 0 THEN [widgets |-> ws, wm |-> m]
    ELSE Let(tui_widget_find_next_focusable(ws, FocusSearchRoot(m), m.focus, FALSE),
             LAMBDA prev : tui_wm_focus(ws, m, prev))

\* a push that records the widget focused before it instead of the scope
tui_wm_push_focus_previous(ws, m, modal_root) ==
    IF Len(m.focus_stack) >= TUI_MAX_FOCUS_STACK THEN [widgets |-> ws, wm |-> m]
    ELSE Let([m EXCEPT !.focus_stack = Append(@, m.focus)], LAMBDA m1 :
         Let(tui_widget_find_next_focusable(ws, modal_root, 0, TRUE), LAMBDA first :
             tui_wm_focus(ws, m1, first)))

tui_wm_push_focus(ws, m, modal_root) ==
    IF Len(m.focus_stack) >= TUI_MAX_FOCUS_STACK THEN [widgets |-> ws, wm |-> m]
    ELSE Let([m EXCEPT !.focus_stack = Append(@, modal_root)], LAMBDA m1 :
         Let(tui_widget_find_next_focusable(ws, modal_root, 0, TRUE), LAMBDA first :
             tui_wm_focus(ws, m1, first)))

tui_wm_pop_focus(ws, m) ==
    IF Len(m.focus_stack) <= 0 THEN [widgets |-> ws, wm |-> m]
    ELSE Let([m EXCEPT !.focus_stack = SubSeq(@, 1, Len(@) - 1)], LAMBDA m1 :
             IF Len(m1.focus_stack) > 0
             THEN Let(tui_widget_find_next_focusable(
                          ws, m1.focus_stack[Len(m1.focus_stack)], 0, TRUE),
                      LAMBDA first : tui_wm_focus(ws, m1, first))
             ELSE IF m1.root # 0
             THEN Let(tui_widget_find_next_focusable(ws, m1.root, 0, TRUE),
                      LAMBDA first : tui_wm_focus(ws, m1, first))
             ELSE [widgets |-> ws, wm |-> m1])

\* modal scopes pushed and not yet popped in a run
MaxScopes == 2

\* a form: the root 1 holds button 2, the panel 3 with buttons 4 and 5, and button 6;
\* buttons 2, 4 and 6 lie side by side on the one row, button 5 has no size yet
Form ==
    LET w0 == <<tui_widget_create("CONTAINER"), tui_widget_create("BUTTON"),
                tui_widget_create("CONTAINER"), tui_widget_create("BUTTON"),
                tui_widget_create("BUTTON"), tui_widget_create("BUTTON")>>
        w1 == tui_widget_set_bounds(w0, 1, 0, 0, MaxCoord + 1, 1)
        w2 == tui_widget_set_bounds(w1, 2, 0, 0, 1, 1)
        w3 == tui_widget_set_bounds(w2, 3, 1, 0, 1, 1)
        w4 == tui_widget_set_bounds(w3, 4, 0, 0, 1, 1)
        w5 == tui_widget_set_bounds(w4, 6, MaxCoord, 0, 1, 1)
        w6 == tui_widget_add_child(w5, 1, 2)
        w7 == tui_widget_add_child(w6, 1, 3)
        w8 == tui_widget_add_child(w7, 3, 4)
        w9 == tui_widget_add_child(w8, 3, 5)
    IN  tui_widget_add_child(w9, 1, 6)

\* the tab_index fields an application writes: as created, and an order that differs
\* from the tree order and has a tie
TabOrders == {<<-1, 0, -1, 0, 0, 0>>, <<-1, 2, -1, 1, 1, 0>>}

\* the widget an application has disabled or hidden, if any
Flaws == {<<0, "none">>, <<2, "disabled">>, <<5, "hidden">>, <<3, "hidden">>}

FormWith(tabs, flaw) ==
    [w \in 1 .. Len(Form) |->
        [Form[w] EXCEPT !.tab_index = tabs[w],
                        !.enabled = ~(flaw = <<w, "disabled">>),
                        !.visible = ~(flaw = <<w, "hidden">>)]]

\* the last manager operation and the focus and scopes it started from
FocusHist(op, arg, m) ==
    [op |-> op, arg |-> arg, focus |-> m.focus, focus_stack |-> m.focus_stack]

InitFocus ==
    /\ ctx = tui_create(<<MaxW, MaxH>>)
    /\ tty_in = <<>>
    /\ tty_size = <<MaxW, MaxH>>
    /\ tui_sigwinch_received = 0
    /\ term = TermInit
    /\ out = <<>>
    /\ events = <<>>
    /\ fed = <<>>
    /\ lastPoll = NoPoll
    /\ chosen = NoChoice
    /\ \E tabs \in TabOrders, flaw \in Flaws : widgets = FormWith(tabs, flaw)
    /\ wm = [NoWm EXCEPT !.root = 1]
    /\ hist = FocusHist("init", 0, wm)
    /\ route = NoRoute

FocusStep(op, arg, r) ==
    /\ widgets' = r.widgets
    /\ wm' = r.wm
    /\ hist' = FocusHist(op, arg, wm)
    /\ UNCHANGED <<ctx, tty_in, tty_size, tui_sigwinch_received, term, out, events, fed,
                   lastPoll, chosen, route>>

Focus ==
    \E w \in 0 .. Len(widgets) :
        \E r \in {tui_wm_focus(widgets, wm, w)} : FocusStep("focus", w, r)

FocusNext ==
    \E r \in {tui_wm_focus_next(widgets, wm)} : FocusStep("focus_next", 0, r)

FocusPrev ==
    \E r \in {tui_wm_focus_prev(widgets, wm)} : FocusStep("focus_prev", 0, r)

PushFocus ==
    /\ Len(wm.focus_stack) < MaxScopes
    /\ \E modal_root \in {1, 3} :
           \E r \in {tui_wm_push_focus(widgets, wm, modal_root)} :
               FocusStep("push_focus", modal_root, r)

PopFocus ==
    \E r \in {tui_wm_pop_focus(widgets, wm)} : FocusStep("pop_focus", 0, r)

Click ==
    \E x \in 0 .. MaxCoord :
        \E r \in {tui_wm_route_event(
                      widgets, wm,
                      [NoEvent EXCEPT !.type = "MOUSE", !.mouse_button = "LEFT",
                                      !.mouse_x = x])} :
            /\ widgets' = r.widgets
            /\ wm' = r.wm
            /\ hist' = FocusHist("click", x, wm)
            /\ route' = r.we
            /\ UNCHANGED <<ctx, tty_in, tty_size, tui_sigwinch_received, term, out,
                           events, fed, lastPoll, chosen>>

NextFocus == Focus \/ FocusNext \/ FocusPrev \/ PushFocus \/ PopFocus \/ Click

SpecFocus == InitFocus /\ [][NextFocus]_vars

\* C12: after any sequence of manager operations the focused widget, if there is
\* one, is visible, enabled and focusable
C12_FocusedIsFocusable ==
    wm.focus # 0 =>
        /\ widgets[wm.focus].visible
        /\ widgets[wm.focus].enabled
        /\ widgets[wm.focus].focusable

\* C13: after any sequence of manager operations the widgets whose focused flag is
\* set are exactly the one wm.focus points to, and none when wm.focus is null
C13_OneFocused ==
    \A w \in 1 .. Len(widgets) : widgets[w].focused <=> (w = wm.focus)

\* the focus moved from one widget to another one
C13_Witness ==
    /\ hist.op \in {"focus_next", "push_focus", "click"}
    /\ hist.focus # 0
    /\ wm.focus # 0
    /\ wm.focus # hist.focus
    /\ widgets[wm.focus].focused

\* the widgets under w in depth-first tree order, w first; DocPreorderAll is that
\* order for the children lo .. hi of w and what is under them
RECURSIVE DocPreorder(_, _)
RECURSIVE DocPreorderAll(_, _, _, _)
DocPreorder(ws, w) == <<w>> \o DocPreorderAll(ws, w, 1, Len(ws[w].children))

DocPreorderAll(ws, w, lo, hi) ==
    IF lo > hi THEN <<>>
    ELSE IF lo = hi THEN DocPreorder(ws, ws[w].children[lo])
    ELSE DocPreorderAll(ws, w, lo, (lo + hi) \div 2)
             \o DocPreorderAll(ws, w, ((lo + hi) \div 2) + 1, hi)

\* s in ascending tab_index order, ties in the order of s: the tab_index values from
\* the lowest, t being a value below the ones still to place
RECURSIVE DocByTabIndex(_, _, _)
DocByTabIndex(ws, s, t) ==
    IF \A i \in 1 .. Len(s) : ws[s[i]].tab_index <= t THEN <<>>
    ELSE LET least == CHOOSE v \in {ws[s[i]].tab_index : i \in 1 .. Len(s)} :
                          /\ v > t
                          /\ \A i \in 1 .. Len(s) :
                                 ws[s[i]].tab_index > t => v <= ws[s[i]].tab_index
         IN  SelectSeq(s, LAMBDA w : ws[w].tab_index = least)
                 \o DocByTabIndex(ws, s, least)

\* the focus cycle the documentation describes for a scope
DocFocusOrder(ws, scope) ==
    DocByTabIndex(ws,
                  SelectSeq(DocPreorder(ws, scope),
                            LAMBDA w : /\ ws[w].focusable
                                       /\ ws[w].visible
                                       /\ ws[w].enabled),
                  -2)

\* the widgets the next n searches forward from w lead to, one after the other
RECURSIVE NextOrbit(_, _, _, _)
NextOrbit(ws, scope, w, n) ==
    IF n = 0 THEN <<>>
    ELSE Let(tui_widget_find_next_focusable(ws, scope, w, TRUE), LAMBDA w1 :
             <<w1>> \o NextOrbit(ws, scope, w1, n - 1))

\* from every widget of the cycle, k searches lead back to it and fewer do not
C14_Period ==
    \E scope \in {FocusSearchRoot(wm)} :
        \E order \in {DocFocusOrder(widgets, scope)} :
            \A i \in 1 .. Len(order) :
                \E orbit \in {NextOrbit(widgets, scope, order[i], Len(order))} :
                    /\ orbit[Len(order)] = order[i]
                    /\ \A n \in 1 .. Len(order) - 1 : orbit[n] # order[i]

\* a tui_wm_focus_next goes to the next widget of the documented cycle, to its first
\* one when the focus is not in the cycle; a tui_wm_focus_prev goes to the one before
C14_Step ==
    hist'.op \in {"focus_next", "focus_prev"} =>
        \E order \in {DocFocusOrder(widgets, FocusSearchRoot(wm))} :
            \E at \in {IndexOf(order, wm.focus)} :
                Len(order) >= 1 =>
                    IF at = 0 THEN hist'.op = "focus_next" => wm'.focus = order[1]
                    ELSE IF hist'.op = "focus_next"
                    THEN wm'.focus = order[(at % Len(order)) + 1]
                    ELSE wm'.focus = order[((at + Len(order) - 2) % Len(order)) + 1]

\* C14: with k >= 1 visible, enabled, focusable widgets under the scope root,
\* tui_wm_focus_next visits them in ascending tab_index order, ties in depth-first
\* tree order, starts at the lowest when nothing is focused and is back on the same
\* widget after exactly k calls; tui_wm_focus_prev walks the cycle backwards
C14_FocusCycle == [](C14_Period) /\ [][C14_Step]_vars

\* a tui_wm_focus_next that wrapped from the last widget of a cycle of three or more,
\* ordered otherwise than the tree, to its first
C14_Witness ==
    /\ hist.op = "focus_next"
    /\ Len(DocFocusOrder(widgets, FocusSearchRoot(wm))) >= 3
    /\ DocFocusOrder(widgets, FocusSearchRoot(wm))[1] = 6
    /\ hist.focus = DocFocusOrder(widgets, FocusSearchRoot(wm))
                        [Len(DocFocusOrder(widgets, FocusSearchRoot(wm)))]
    /\ wm.focus = 6
    /\ hist.focus_stack = wm.focus_stack

\* the first widget of the documented focus cycle of a scope, 0 when it is empty
DocFirst(ws, scope) ==
    IF DocFocusOrder(ws, scope) = <<>> THEN 0 ELSE DocFocusOrder(ws, scope)[1]

\* C15 as stated: after a tui_wm_push_focus that pushed a scope while a widget was
\* focused, the focus-scope stack records that widget
C15_PushKeepsPreviousFocus ==
    (/\ hist.op = "push_focus"
     /\ Len(wm.focus_stack) = Len(hist.focus_stack) + 1
     /\ hist.focus # 0)
        => \E i \in 1 .. Len(wm.focus_stack) : wm.focus_stack[i] = hist.focus

\* C15: a tui_wm_push_focus appends the modal root, and nothing else, to the
\* focus-scope stack and focuses the first widget of the modal root's focus cycle;
\* a tui_wm_pop_focus removes the top scope and focuses the first widget of the
\* focus cycle of the scope below it, or of the tree root
C15_PushAppendsScope ==
    /\ hist.op = "push_focus" =>
            /\ wm.focus_stack = Append(hist.focus_stack, hist.arg)
            /\ wm.focus = DocFirst(widgets, hist.arg)
    /\ (hist.op = "pop_focus" /\ hist.focus_stack # <<>>) =>
            /\ wm.focus_stack = SubSeq(hist.focus_stack, 1, Len(hist.focus_stack) - 1)
            /\ wm.focus = DocFirst(widgets, FocusSearchRoot(wm))

\* a scope pushed while a widget outside it was focused: the stack holds the scope
\* only and the focus moved into it
C15_Witness ==
    /\ hist.op = "push_focus"
    /\ hist.arg = 3
    /\ hist.focus \in {2, 6}
    /\ hist.focus_stack = <<>>
    /\ wm.focus_stack = <<3>>
    /\ wm.focus \in {4, 5}

(***************************************************************************)
(* Focus over a form that outgrows the buffers of the focus search         *)
(***************************************************************************)
\* the levels of the wide form below its root
WideLevels == 5

\* the level (from 0) of widget w >= 2 of the wide form, and the first widget of a level
WideLevel(w) == (w - 2) \div TUI_MAX_CHILDREN

WideFirst(level) == 2 + (TUI_MAX_CHILDREN * level)

\* a form whose root 1 and the first widget of every level but the last hold
\* TUI_MAX_CHILDREN children each, the widgets of the next level; the widgets in
\* buttons are buttons, the others containers
Wide(buttons) ==
    [w \in 1 .. 1 + (TUI_MAX_CHILDREN * WideLevels) |->
        [tui_widget_create(IF w \in buttons THEN "BUTTON" ELSE "CONTAINER") EXCEPT
            !.parent = IF w = 1 THEN 0
                       ELSE IF WideLevel(w) = 0 THEN 1
                       ELSE WideFirst(WideLevel(w) - 1),
            !.children = IF w = 1
                         THEN [i \in 1 .. TUI_MAX_CHILDREN |-> 1 + i]
                         ELSE IF w = WideFirst(WideLevel(w))
                                 /\ WideLevel(w) + 1 < WideLevels
                         THEN [i \in 1 .. TUI_MAX_CHILDREN |->
                                  WideFirst(WideLevel(w) + 1) + i - 1]
                         ELSE <<>>]]

\* where an application puts buttons: the last child of the root and children in
\* the middle and at the end of the deepest level
WideSpots ==
    {1 + TUI_MAX_CHILDREN} \cup
    {1 + (TUI_MAX_CHILDREN * WideLevels) - d : d \in 2 .. 5}

InitWide ==
    /\ ctx = tui_create(<<MaxW, MaxH>>)
    /\ tty_in = <<>>
    /\ tty_size = <<MaxW, MaxH>>
    /\ tui_sigwinch_received = 0
    /\ term = TermInit
    /\ out = <<>>
    /\ events = <<>>
    /\ fed = <<>>
    /\ lastPoll = NoPoll
    /\ chosen = NoChoice
    /\ \E buttons \in SUBSET WideSpots :
           /\ Cardinality(buttons) \in {2, 3}
           /\ widgets = Wide(buttons)
    /\ wm = [NoWm EXCEPT !.root = 1]
    /\ hist = FocusHist("init", 0, wm)
    /\ route = NoRoute

NextWide == FocusNext \/ FocusPrev

SpecWide == InitWide /\ [][NextWide]_vars

(***************************************************************************)
(* Widget input: key and mouse events arrive at one focused widget          *)
(***************************************************************************)
\* the host side at rest: no frame, no input, no resize
HostIdle ==
    /\ ctx = tui_create(<<MaxW, MaxH>>)
    /\ tty_in = <<>>
    /\ tty_size = <<MaxW, MaxH>>
    /\ tui_sigwinch_received = 0
    /\ term = TermInit
    /\ out = <<>>
    /\ events = <<>>
    /\ fed = <<>>
    /\ lastPoll = NoPoll
    /\ chosen = NoChoice

\* a tree of the one widget w0, focused
OneWidget(w0) ==
    /\ HostIdle
    /\ \E r \in {tui_wm_focus(<<w0>>, [NoWm EXCEPT !.root = 1], 1)} :
           /\ widgets = r.widgets
           /\ wm = r.wm
    /\ route = NoRoute

InitWidget(w0) == OneWidget(w0) /\ hist = HistInit

\* the event is routed to the widgets
Deliver(event) ==
    \E r \in {tui_wm_route_event(widgets, wm, event)} :
        /\ widgets' = r.widgets
        /\ wm' = r.wm
        /\ route' = r.we
        /\ UNCHANGED <<ctx, tty_in, tty_size, tui_sigwinch_received, term, out, events,
                       fed, lastPoll, chosen, hist>>

\* capacity of the largest textbox buffer
MaxCap == 4

\* a buffer of capacity bytes that holds length characters 'a' and the final NUL
TextBuffer(capacity, length) ==
    [i \in 1 .. capacity |-> IF i <= length THEN 97 ELSE 0]

\* the textboxes an application sets up: 0 <= cursor <= length < capacity
Textboxes ==
    {t \in {[buffer |-> TextBuffer(capacity, length), capacity |-> capacity,
             length |-> length, cursor |-> cursor, scroll |-> 0] :
                capacity \in 1 .. MaxCap, length \in 0 .. MaxCap, cursor \in 0 .. MaxCap} :
        t.cursor <= t.length /\ t.length < t.capacity}

\* the keys a textbox sees: the editing keys, a printable character, characters
\* outside the printable range, and a key it does not handle
TextboxKeys ==
    {KeyEvent(NoEvent, k) :
         k \in {"LEFT", "RIGHT", "HOME", "END", "BACKSPACE", "DELETE", "SPACE", "ENTER"}}
    \cup {[KeyEvent(NoEvent, "CHAR") EXCEPT !.ch = ch] : ch \in {98, 31, 127}}

InitTextbox ==
    \E t \in Textboxes : InitWidget([tui_widget_create("TEXTBOX") EXCEPT !.state = t])

TextboxKey == \E event \in TextboxKeys : Deliver(event)

NextTextbox == TextboxKey

SpecTextbox == InitTextbox /\ [][NextTextbox]_vars

\* C16: after any sequence of key events handled by a textbox that starts with
\* 0 <= cursor <= length < capacity, the cursor is in [0, length] and the length is
\* not negative and below the capacity
C16_TextboxInRange ==
    \A w \in 1 .. Len(widgets) :
        widgets[w].type = "TEXTBOX" =>
            /\ 0 <= widgets[w].state.cursor
            /\ widgets[w].state.cursor <= widgets[w].state.length
            /\ 0 <= widgets[w].state.length
            /\ widgets[w].state.length < widgets[w].state.capacity

\* a character typed in the middle of the text filled the buffer
C16_Witness ==
    /\ route.base.key = "CHAR"
    /\ route.base.ch = 98
    /\ widgets[1].state.capacity = MaxCap
    /\ widgets[1].state.length = MaxCap - 1
    /\ widgets[1].state.cursor = 2
    /\ widgets[1].state.buffer[2] = 98
    /\ widgets[1].state.buffer[MaxCap] = 0

\* entries of the largest lines array, and the largest max_line_len
MaxLines == 3

MaxLineLen == 3

\* the lines an application starts a textarea with
StartLines == {<<>>, <<97, 98>>}

\* editable textareas of one or two lines with room for MaxLines, the cursor at the
\* start of the text; malloc fails when heap is 0
Textareas ==
    {[lines |-> <<first, second>> \o [i \in 1 .. MaxLines - 2 |-> NullLine],
      line_count |-> line_count, line_capacity |-> MaxLines,
      cursor_row |-> 0, cursor_col |-> 0, scroll_row |-> 0,
      line_numbers |-> FALSE, editable |-> TRUE, max_line_len |-> MaxLineLen,
      heap |-> heap] :
        first \in StartLines, second \in StartLines, line_count \in 1 .. 2,
        heap \in 0 .. 1}

\* keys and mouse events a textarea sees
TextareaEvents ==
    {KeyEvent(NoEvent, k) :
         k \in {"UP", "DOWN", "LEFT", "RIGHT", "PAGEDOWN", "BACKSPACE", "DELETE", "ENTER"}}
    \cup {[KeyEvent(NoEvent, "HOME") EXCEPT !.ctrl = TRUE],
          [NoEvent EXCEPT !.type = "MOUSE", !.mouse_button = "LEFT", !.mouse_x = 1],
          [NoEvent EXCEPT !.type = "MOUSE", !.mouse_button = "WHEEL_DOWN"]}

InitTextarea ==
    \E t \in Textareas :
        InitWidget([tui_widget_create("TEXTAREA") EXCEPT
                       !.state = t, !.width = MaxLineLen, !.height = 1])

TextareaEvent == \E event \in TextareaEvents : Deliver(event)

NextTextarea == TextareaEvent

SpecTextarea == InitTextarea /\ [][NextTextarea]_vars

\* the characters of the lines 0 .. line_count - 1 of a textarea
RECURSIVE DocTotalChars(_, _)
DocTotalChars(t, n) ==
    IF n = 0 THEN 0 ELSE StrLen(t.lines[n]) + DocTotalChars(t, n - 1)

\* the Enter key arrives at an editable textarea with line_count < line_capacity, and
\* the allocation of the new line succeeds
EnterSplit ==
    /\ route'.base.type = "KEY"
    /\ route'.base.key = "ENTER"
    /\ widgets[1].type = "TEXTAREA"
    /\ widgets[1].state.editable
    /\ widgets[1].state.line_count < widgets[1].state.line_capacity
    /\ widgets[1].state.heap > 0

MaxCount == 4

\* the lists an application sets up: count > 0, visible >= 0, the selection an item
\* and the scroll offset in [0, max(0, count - visible)]
Lists ==
    {l \in [count : 1 .. MaxCount, selected : 0 .. MaxCount - 1,
            scroll : 0 .. MaxCount, visible : 0 .. MaxCount + 1] :
        /\ l.selected < l.count
        /\ l.scroll <= Max(l.count - l.visible, 0)}

\* keys and mouse events a list sees; the mouse is on one of its rows
ListEvents ==
    {KeyEvent(NoEvent, k) :
         k \in {"UP", "DOWN", "PAGEUP", "PAGEDOWN", "HOME", "END", "ENTER"}}
    \cup {[NoEvent EXCEPT !.type = "MOUSE", !.mouse_button = b, !.mouse_y = y] :
              b \in {"LEFT", "WHEEL_UP", "WHEEL_DOWN", "RELEASE"}, y \in 0 .. MaxCoord}

InitList ==
    \E l \in Lists :
        InitWidget([tui_widget_create("LIST") EXCEPT
                       !.state = l, !.width = 1, !.height = MaxCoord + 1])

ListEvent == \E event \in ListEvents : Deliver(event)

NextList == ListEvent

SpecList == InitList /\ [][NextList]_vars

\* C18: after any sequence of key and mouse events handled by a list with count > 0
\* and visible >= 0 that starts in range, selected is in [0, count) and scroll is in
\* [0, max(0, count - visible)]
C18_ListInRange ==
    \A w \in 1 .. Len(widgets) :
        widgets[w].type = "LIST" =>
            /\ 0 <= widgets[w].state.selected
            /\ widgets[w].state.selected < widgets[w].state.count
            /\ 0 <= widgets[w].state.scroll
            /\ widgets[w].state.scroll
                   <= Max(widgets[w].state.count - widgets[w].state.visible, 0)

\* a Page Down key moved the selection to the last item and the scroll offset to its
\* largest value
C18_Witness ==
    /\ route.base.key = "PAGEDOWN"
    /\ widgets[1].type = "LIST"
    /\ widgets[1].state.count = MaxCount
    /\ widgets[1].state.visible = 2
    /\ widgets[1].state.selected = MaxCount - 1
    /\ widgets[1].state.scroll = MaxCount - 2

\* the largest step of a spinner
MaxStep == 3

\* the spinners an application sets up: limits on both sides of the value, limits
\* that leave no room, and a step left at 0
Spinners ==
    [value : {0, 1}, min : {-4, 0, 2}, max : {1, 4}, step : 0 .. MaxStep]

\* keys and clicks a spinner sees
SpinnerEvents ==
    {KeyEvent(NoEvent, k) : k \in {"LEFT", "RIGHT", "UP", "DOWN", "ENTER"}}
    \cup {[NoEvent EXCEPT !.type = "MOUSE", !.mouse_button = b, !.mouse_x = x] :
              b \in {"LEFT", "RELEASE"}, x \in 0 .. MaxCoord}

\* a spinner four columns wide that begins at column 0 or one column left of it; hist
\* keeps the value it starts with
InitSpinner ==
    \E sp \in Spinners, x \in {-1, 0} :
        /\ OneWidget([tui_widget_create("SPINNER") EXCEPT
                         !.state = sp, !.x = x, !.width = 4, !.height = 1])
        /\ hist = [initial |-> sp.value]

SpinnerEvent == \E event \in SpinnerEvents : Deliver(event)

NextSpinner == SpinnerEvent

SpecSpinner == InitSpinner /\ [][NextSpinner]_vars

\* C19: after any sequence of key and mouse events handled by a spinner with
\* step >= 1, its value differs from its initial value by an integer multiple of step
C19_SpinnerMultipleOfStep ==
    \A w \in 1 .. Len(widgets) :
        (widgets[w].type = "SPINNER" /\ widgets[w].state.step >= 1) =>
            (widgets[w].state.value - hist.initial) % widgets[w].state.step = 0

\* what the spinner does keep: an event leaves the value, moves it by step, or puts
\* it on the limit that a move by step would pass
C19_StepOrLimit ==
    [][\A w \in 1 .. Len(widgets) :
           (widgets[w].type = "SPINNER" /\ widgets[w].state.step >= 1) =>
               LET sp == widgets[w].state
                   value == widgets'[w].state.value
               IN  \/ value = sp.value
                   \/ value = sp.value + sp.step /\ value <= sp.max
                   \/ value = sp.value - sp.step /\ value >= sp.min
                   \/ value = sp.max /\ sp.value + sp.step > sp.max
                   \/ value = sp.min /\ sp.value - sp.step < sp.min]_vars

(***************************************************************************)
(* Drawing: calls inside and outside frames, on and off the visible area    *)
(***************************************************************************)
\* coordinates of the drawing calls: left of and above the area, inside it, and on
\* and past its right and lower edge
DrawArgXs == -1 .. MaxW

DrawArgYs == -1 .. MaxH

NoCall == [op |-> "none", x |-> 0, y |-> 0, w |-> 0, h |-> 0]

\* the record of the frame loop, and the drawing call made last
InitDraw ==
    /\ tty_size \in Sizes
    /\ ctx = tui_create(tty_size)
    /\ tty_in = <<>>
    /\ tui_sigwinch_received = 0
    /\ term = TermInit
    /\ out = <<>>
    /\ events = <<>>
    /\ fed = <<>>
    /\ lastPoll = NoPoll
    /\ chosen = NoChoice
    /\ hist = [f \in DOMAIN HistInit \cup {"call"} |->
                  IF f = "call" THEN NoCall ELSE HistInit[f]]
    /\ widgets = NoWidgets
    /\ wm = NoWm
    /\ route = NoRoute

\* a drawing call with the arguments call was made and left the context c
Drawn(call, c) ==
    /\ hist.draws < MaxDraws
    /\ ctx' = c
    /\ hist' = [hist EXCEPT !.draws = @ + 1, !.frame_draws = @ + 1, !.call = call]
    /\ Idle

DrawSetCell ==
    \E x \in DrawArgXs, y \in DrawArgYs :
        Drawn([NoCall EXCEPT !.op = "set_cell", !.x = x, !.y = y],
              tui_set_cell(ctx, x, y, 65))

DrawSetCellWide ==
    \E x \in DrawArgXs, y \in DrawArgYs :
        Drawn([NoCall EXCEPT !.op = "set_cell_wide", !.x = x, !.y = y],
              tui_set_cell_wide(ctx, x, y, 20013))

DrawLabel ==
    \E x \in DrawArgXs, y \in DrawArgYs, text \in Texts :
        Drawn([NoCall EXCEPT !.op = "label", !.x = x, !.y = y],
              tui_label(ctx, x, y, text))

DrawFill ==
    \E x \in DrawArgXs, y \in DrawArgYs, w \in {2}, h \in 1 .. 2 :
        Drawn([op |-> "fill", x |-> x, y |-> y, w |-> w, h |-> h],
              tui_fill(ctx, x, y, w, h, 66))

DrawHline ==
    \E x \in DrawArgXs, y \in DrawArgYs :
        Drawn([op |-> "fill", x |-> x, y |-> y, w |-> 3, h |-> 1],
              tui_hline(ctx, x, y, 3, 67))

DrawVline ==
    \E x \in DrawArgXs, y \in DrawArgYs :
        Drawn([op |-> "fill", x |-> x, y |-> y, w |-> 1, h |-> 3],
              tui_vline(ctx, x, y, 3, 67))

DrawClear == Drawn([NoCall EXCEPT !.op = "clear"], tui_clear(ctx))

NextDraw ==
    \/ BeginFrame
    \/ EndFrame
    \/ DrawSetCell
    \/ DrawSetCellWide
    \/ DrawLabel
    \/ DrawFill
    \/ DrawHline
    \/ DrawVline
    \/ DrawClear

SpecDraw == InitDraw /\ [][NextDraw]_vars

\* the cells of the back buffer a step changed
Changed == {p \in Grid : ctx'.back_buffer[p] # ctx.back_buffer[p]}

\* C20: a drawing call changes no back-buffer cell when it is made outside a frame;
\* tui_set_cell and tui_set_cell_wide change none when their target is outside
\* [0, W) x [0, H); no drawing call changes a cell with x >= W or y >= H, a fill or
\* a line none outside its rectangle; and no drawing call changes the front buffer
C20_DrawingStaysInside ==
    [][hist'.draws # hist.draws =>
           /\ ctx'.front_buffer = ctx.front_buffer
           /\ ~ctx.in_frame => Changed = {}
           /\ (/\ hist'.call.op \in {"set_cell", "set_cell_wide"}
               /\ ~(/\ 0 <= hist'.call.x /\ hist'.call.x < ctx.width
                    /\ 0 <= hist'.call.y /\ hist'.call.y < ctx.height))
                  => Changed = {}
           /\ \A p \in Changed : p[1] < ctx.width /\ p[2] < ctx.height
           /\ hist'.call.op = "set_cell" => Changed \subseteq {<<hist'.call.x, hist'.call.y>>}
           /\ hist'.call.op = "fill" =>
                  \A p \in Changed :
                      /\ hist'.call.x <= p[1] /\ p[1] < hist'.call.x + hist'.call.w
                      /\ hist'.call.y <= p[2] /\ p[2] < hist'.call.y + hist'.call.h]_vars

\* inside a frame on a terminal narrower than the buffer, a fill that reaches over
\* the right edge of the visible area drew up to the edge
C20_Witness ==
    /\ hist.call.op = "fill"
    /\ ctx.in_frame
    /\ ctx.width = MaxW - 1
    /\ hist.call.x = ctx.width - 1
    /\ hist.call.w = 2
    /\ hist.call.y = 0
    /\ ctx.back_buffer[<<ctx.width - 1, 0>>].codepoint = 66
    /\ ctx.back_buffer[<<ctx.width, 0>>].codepoint # 66

(***************************************************************************)
(* Frames whose write to the terminal may fail                             *)
(***************************************************************************)
\* tui_output_flush of the buffered output when write fails, with an error other
\* than EINTR, after sent of its pieces were taken (sent = Len(buffer): no error):
\* what reached the terminal. output_pos is 0 afterwards in either case
tui_output_flush(buffer, sent) == SubSeq(buffer, 1, sent)

\* the record of the frame loop, whether the last flush failed and the cells whose
\* glyph it lost
InitFlush ==
    /\ tty_size \in Sizes
    /\ ctx = tui_create(tty_size)
    /\ tty_in = <<>>
    /\ tui_sigwinch_received = 0
    /\ term = TermInit
    /\ out = <<>>
    /\ events = <<>>
    /\ fed = <<>>
    /\ lastPoll = NoPoll
    /\ chosen = NoChoice
    /\ hist = [f \in DOMAIN HistInit \cup {"failed", "lost"} |->
                  IF f = "failed" THEN FALSE
                  ELSE IF f = "lost" THEN {}
                  ELSE HistInit[f]]
    /\ widgets = NoWidgets
    /\ wm = NoWm
    /\ route = NoRoute

\* tui_end_frame: the screen clear of a full redraw is flushed on its own, the rest
\* of the frame at the end; either write may fail
EndFrameWrite ==
    /\ ctx.in_frame
    /\ \E r \in {tui_end_frame(ctx)} :
       \E nclear \in {IF ctx.needs_redraw THEN 3 ELSE 0} :
       \E sent1 \in 0 .. nclear, sent2 \in 0 .. Len(r.out) - nclear :
       \E arrived \in {tui_output_flush(SubSeq(r.out, 1, nclear), sent1)
                       \o tui_output_flush(SubSeq(r.out, nclear + 1, Len(r.out)), sent2)} :
       \E glyphs \in {Cardinality({i \in nclear + 1 .. nclear + sent2 :
                                      r.out[i].op = "GLYPH"})} :
           /\ ctx' = r.ctx
           /\ out' = arrived
           /\ term' = TermApply(term, arrived, 1, tty_size)
           /\ hist' = [hist EXCEPT
                  !.frames = @ + 1,
                  !.same_back = (hist.frames >= 1 /\ ctx.back_buffer = hist.last_back),
                  !.last_back = ctx.back_buffer,
                  !.front0 = r.front0,
                  !.written = r.written,
                  !.end_size = <<ctx.width, ctx.height>>,
                  !.failed = (sent2 < Len(r.out) - nclear),
                  !.lost = {r.written[i] : i \in glyphs + 1 .. Len(r.written)}]
    /\ UNCHANGED <<tty_in, tty_size, tui_sigwinch_received, events, fed, lastPoll,
                   chosen, widgets, wm, route>>

NextFlush ==
    \/ BeginFrame
    \/ SetCell
    \/ SetFg
    \/ EndFrameWrite

SpecFlush == InitFlush /\ [][NextFlush]_vars

\* C21: a frame that draws the image of the frame before it, whose flush failed,
\* emits again every cell whose glyph that flush lost
C21_FailedFrameRetried ==
    [][(/\ hist'.frames = hist.frames + 1
        /\ hist.failed
        /\ ctx.back_buffer = hist.last_back
        /\ <<ctx.width, ctx.height>> = hist.end_size)
           => hist.lost \subseteq {hist'.written[i] : i \in 1 .. Len(hist'.written)}]_vars

(***************************************************************************)
(* Resize reports                                                          *)
(***************************************************************************)
\* the terminal has a size the host was not told: it changed once and no RESIZE
\* event was delivered, or the last RESIZE event carried another size
Unreported ==
    \/ hist.resizes = 1 /\ events = <<>>
    \/ /\ events # <<>>
       /\ <<events[Len(events)].new_width, events[Len(events)].new_height>> # tty_size

\* C22: the tui_poll_event that takes the resize latch while the terminal has a size
\* the host was not told delivers one RESIZE event with that size and marks the
\* context for a full redraw, wherever tui_begin_frame falls between the signal
\* and the poll
C22_ResizeReported ==
    [][(tui_sigwinch_received = 1 /\ tui_sigwinch_received' = 0 /\ Unreported)
           => /\ events' = Append(events, [NoEvent EXCEPT !.type = "RESIZE",
                                                          !.new_width = tty_size[1],
                                                          !.new_height = tty_size[2]])
              /\ ctx'.needs_redraw]_vars

(***************************************************************************)
(* Features and tui_destroy                                                *)
(***************************************************************************)
MaxToggles == 4     \* feature and cursor-shape calls before tui_destroy

ModeOn(n) == Tok("MODE_ON", n, 0)       \* CSI ? n h
ModeOff(n) == Tok("MODE_OFF", n, 0)     \* CSI ? n l

tui_ansi_enable_mouse == <<ModeOn(1000), ModeOn(1002), ModeOn(1006)>>
tui_ansi_disable_mouse == <<ModeOff(1006), ModeOff(1002), ModeOff(1000)>>
tui_ansi_enable_bracketed_paste == <<ModeOn(2004)>>
tui_ansi_disable_bracketed_paste == <<ModeOff(2004)>>
tui_ansi_enable_focus_events == <<ModeOn(1004)>>
tui_ansi_disable_focus_events == <<ModeOff(1004)>>
tui_ansi_leave_alt_screen == <<ModeOff(1049)>>
tui_ansi_set_cursor_shape(shape) == <<Tok("CURSOR_SHAPE", shape, 0)>>

\* the feature calls: [ctx, tty], tty what the call's flush writes to the terminal
tui_enable_mouse(c) ==
    IF ~c.mouse_enabled
    THEN [ctx |-> [c EXCEPT !.mouse_enabled = TRUE], tty |-> tui_ansi_enable_mouse]
    ELSE [ctx |-> c, tty |-> <<>>]

tui_disable_mouse(c) ==
    IF c.mouse_enabled
    THEN [ctx |-> [c EXCEPT !.mouse_enabled = FALSE], tty |-> tui_ansi_disable_mouse]
    ELSE [ctx |-> c, tty |-> <<>>]

tui_enable_bracketed_paste(c) ==
    IF ~c.bracketed_paste_enabled
    THEN [ctx |-> [c EXCEPT !.bracketed_paste_enabled = TRUE],
          tty |-> tui_ansi_enable_bracketed_paste]
    ELSE [ctx |-> c, tty |-> <<>>]

tui_disable_bracketed_paste(c) ==
    IF c.bracketed_paste_enabled
    THEN [ctx |-> [c EXCEPT !.bracketed_paste_enabled = FALSE],
          tty |-> tui_ansi_disable_bracketed_paste]
    ELSE [ctx |-> c, tty |-> <<>>]

tui_enable_focus_events(c) ==
    IF ~c.focus_events_enabled
    THEN [ctx |-> [c EXCEPT !.focus_events_enabled = TRUE],
          tty |-> tui_ansi_enable_focus_events]
    ELSE [ctx |-> c, tty |-> <<>>]

tui_disable_focus_events(c) ==
    IF c.focus_events_enabled
    THEN [ctx |-> [c EXCEPT !.focus_events_enabled = FALSE],
          tty |-> tui_ansi_disable_focus_events]
    ELSE [ctx |-> c, tty |-> <<>>]

\* a tui_destroy that restores the terminal settings before it flushes
tui_destroy_unflushed(c) ==
    [ctx |-> [c EXCEPT !.initialized = FALSE],
     tty |-> <<Tok("TCSETATTR", 0, 0)>>
             \o (IF c.mouse_enabled THEN tui_ansi_disable_mouse ELSE <<>>)
             \o (IF c.bracketed_paste_enabled THEN tui_ansi_disable_bracketed_paste
                 ELSE <<>>)
             \o (IF c.focus_events_enabled THEN tui_ansi_disable_focus_events ELSE <<>>)
             \o tui_ansi_set_cursor_shape(0)
             \o <<Tok("SHOW_CURSOR", 0, 0), Tok("RESET", 0, 0)>>
             \o tui_ansi_leave_alt_screen]

\* tui_destroy: [ctx, tty], tty what happens to the terminal, in order: the buffered
\* sequences when they are flushed, then tcsetattr with the original settings. The
\* context is freed; initialized = FALSE stands for that
tui_destroy(c) ==
    IF ~c.initialized THEN [ctx |-> c, tty |-> <<>>]
    ELSE LET buffered ==
                 (IF c.mouse_enabled THEN tui_ansi_disable_mouse ELSE <<>>)
                 \o (IF c.bracketed_paste_enabled THEN tui_ansi_disable_bracketed_paste
                     ELSE <<>>)
                 \o (IF c.focus_events_enabled THEN tui_ansi_disable_focus_events
                     ELSE <<>>)
                 \o tui_ansi_set_cursor_shape(0)
                 \o <<Tok("SHOW_CURSOR", 0, 0), Tok("RESET", 0, 0)>>
                 \o tui_ansi_leave_alt_screen
         IN  [ctx |-> [c EXCEPT !.initialized = FALSE],
              tty |-> tui_output_flush(buffered, Len(buffered))
                      \o <<Tok("TCSETATTR", 0, 0)>>]

Features == {"mouse", "paste", "focus"}

\* hist.enabled: the features that are enabled, in the order they were enabled;
\* hist.teardown: what tui_destroy did to the terminal
InitLife ==
    /\ tty_size = <<MaxW, MaxH>>
    /\ ctx = tui_create(tty_size)
    /\ tty_in = <<>>
    /\ tui_sigwinch_received = 0
    /\ term = TermInit
    /\ out = <<>>
    /\ events = <<>>
    /\ fed = <<>>
    /\ lastPoll = NoPoll
    /\ chosen = NoChoice
    /\ hist = [enabled |-> <<>>, calls |-> 0, teardown |-> <<>>]
    /\ widgets = NoWidgets
    /\ wm = NoWm
    /\ route = NoRoute

\* a feature call that left r; enabled is the enabling order after it
Toggled(r, enabled) ==
    /\ ctx.initialized
    /\ hist.calls < MaxToggles
    /\ ctx' = r.ctx
    /\ out' = r.tty
    /\ hist' = [hist EXCEPT !.calls = @ + 1, !.enabled = enabled]
    /\ UNCHANGED <<tty_in, tty_size, tui_sigwinch_received, term, events, fed, lastPoll,
                   chosen, widgets, wm, route>>

Without(seq, f) == SelectSeq(seq, LAMBDA g : g # f)

EnableMouse ==
    Toggled(tui_enable_mouse(ctx), Append(Without(hist.enabled, "mouse"), "mouse"))

DisableMouse == Toggled(tui_disable_mouse(ctx), Without(hist.enabled, "mouse"))

EnableBracketedPaste ==
    Toggled(tui_enable_bracketed_paste(ctx),
            Append(Without(hist.enabled, "paste"), "paste"))

DisableBracketedPaste ==
    Toggled(tui_disable_bracketed_paste(ctx), Without(hist.enabled, "paste"))

EnableFocusEvents ==
    Toggled(tui_enable_focus_events(ctx),
            Append(Without(hist.enabled, "focus"), "focus"))

DisableFocusEvents ==
    Toggled(tui_disable_focus_events(ctx), Without(hist.enabled, "focus"))

SetCursorShape ==
    \E shape \in {2, 6} :
        Toggled([ctx |-> ctx, tty |-> tui_ansi_set_cursor_shape(shape)], hist.enabled)

Destroy ==
    /\ ctx.initialized
    /\ \E r \in {tui_destroy(ctx)} :
           /\ ctx' = r.ctx
           /\ out' = r.tty
           /\ hist' = [hist EXCEPT !.teardown = r.tty]
    /\ UNCHANGED <<tty_in, tty_size, tui_sigwinch_received, term, events, fed, lastPoll,
                   chosen, widgets, wm, route>>

NextLife ==
    \/ EnableMouse
    \/ DisableMouse
    \/ EnableBracketedPaste
    \/ DisableBracketedPaste
    \/ EnableFocusEvents
    \/ DisableFocusEvents
    \/ SetCursorShape
    \/ Destroy

SpecLife == InitLife /\ [][NextLife]_vars

\* the disable sequence of a feature
DocDisable(f) ==
    CASE f = "mouse" -> <<ModeOff(1006), ModeOff(1002), ModeOff(1000)>>
      [] f = "paste" -> <<ModeOff(2004)>>
      [] f = "focus" -> <<ModeOff(1004)>>

\* the disable sequences of the features of order, last first
RECURSIVE DocDisableReversed(_)
DocDisableReversed(order) ==
    IF order = <<>> THEN <<>>
    ELSE DocDisable(order[Len(order)])
         \o DocDisableReversed(SubSeq(order, 1, Len(order) - 1))

\* the disable sequences of the enabled features in the order mouse, paste, focus
DocDisableFixed(order) ==
    LET on == {order[i] : i \in 1 .. Len(order)}
    IN  (IF "mouse" \in on THEN DocDisable("mouse") ELSE <<>>)
        \o (IF "paste" \in on THEN DocDisable("paste") ELSE <<>>)
        \o (IF "focus" \in on THEN DocDisable("focus") ELSE <<>>)

Destroyed == ~ctx.initialized

Crowd(n) ==
    [w \in 1 .. TUI_MAX_CHILDREN + 3 |->
        [tui_widget_create("CONTAINER") EXCEPT
            !.parent = IF w >= 4 /\ w <= 3 + n THEN 1 ELSE 0,
            !.children = IF w = 1 THEN [i \in 1 .. n |-> 3 + i] ELSE <<>>]]

\* the parents and the children of the calls
TreeParents == {1, 2}

TreeChildren == {2, 3, 4}

NoTreeCall == [op |-> "none", parent |-> 0, child |-> 0]

InitTree ==
    /\ HostIdle
    /\ \E n \in {TUI_MAX_CHILDREN - 1, TUI_MAX_CHILDREN} : widgets = Crowd(n)
    /\ wm = NoWm
    /\ route = NoRoute
    /\ hist = NoTreeCall

TreeCall(call, ws) ==
    /\ widgets' = ws
    /\ hist' = call
    /\ UNCHANGED <<ctx, tty_in, tty_size, tui_sigwinch_received, term, out, events, fed,
                   lastPoll, chosen, wm, route>>

AddChild ==
    \E parent \in TreeParents, child \in TreeChildren :
        TreeCall([op |-> "add", parent |-> parent, child |-> child],
                 tui_widget_add_child(widgets, parent, child))

RemoveChild ==
    \E parent \in TreeParents, child \in TreeChildren :
        TreeCall([op |-> "remove", parent |-> parent, child |-> child],
                 tui_widget_remove_child(widgets, parent, child))

NextTree == AddChild \/ RemoveChild

SpecTree == InitTree /\ [][NextTree]_vars

\* the number of times w is in the children array of p
TimesChildOf(w, p) ==
    Cardinality({i \in 1 .. Len(widgets[p].children) : widgets[p].children[i] = w})

\* C24: after any tui_widget_add_child and tui_widget_remove_child calls a widget is
\* once in the children of its parent and in no other children array, no parent
\* holds more than TUI_MAX_CHILDREN children, and an add to a full parent changes
\* no widget
C24_SingleParent ==
    /\ [](\A p \in DOMAIN widgets :
              /\ Len(widgets[p].children) <= TUI_MAX_CHILDREN
              /\ \A w \in DOMAIN widgets :
                     TimesChildOf(w, p) = IF widgets[w].parent = p THEN 1 ELSE 0)
    /\ [][(/\ hist'.op = "add"
           /\ Len(widgets[hist'.parent].children) >= TUI_MAX_CHILDREN)
              => widgets' = widgets]_vars

\* widget 1 is full and holds widget 3, which came last; widget 4, which it held,
\* is a child of widget 2 now and the add that would bring it back was refused
C24_Witness ==
    /\ hist = [op |-> "add", parent |-> 1, child |-> 4]
    /\ Len(widgets[1].children) = TUI_MAX_CHILDREN
    /\ widgets[3].parent = 1
    /\ widgets[4].parent = 2
    /\ widgets[2].children = <<4>>

(***************************************************************************)
(* Hotkeys with modifiers                                                  *)
(***************************************************************************)
ModifierKeys == {<<"ENTER", 0>>, <<"CHAR", 97>>}

InitModifier ==
    /\ HostIdle
    /\ hist = HistInit
    /\ \E f \in {tui_wm_focus(Fan, [NoWm EXCEPT !.root = 1], 3)} :
           /\ widgets = f.widgets
           /\ wm = f.wm
    /\ route = NoRoute

RegisterHotkeyModifier ==
    /\ Len(wm.hotkeys) < MaxHotkeyTable
    /\ \E k \in ModifierKeys, ctrl \in BOOLEAN, alt \in BOOLEAN, shift \in BOOLEAN,
          effect \in {"none", "consume"} :
           /\ wm' = tui_wm_register_hotkey(wm, k[1], k[2], ctrl, alt, shift, effect)
           /\ route' = NoRoute
           /\ UNCHANGED <<ctx, tty_in, tty_size, tui_sigwinch_received, term, out, events,
                          fed, lastPoll, chosen, hist, widgets>>

RouteModifierKey ==
    \E k \in ModifierKeys, ctrl \in BOOLEAN, alt \in BOOLEAN, shift \in BOOLEAN :
        Deliver([KeyEvent(NoEvent, k[1]) EXCEPT !.ch = k[2], !.ctrl = ctrl,
                                                !.alt = alt, !.shift = shift])

NextModifier == RegisterHotkeyModifier \/ RouteModifierKey

SpecModifier == InitModifier /\ [][NextModifier]_vars

\* C25: the handler of a hotkey is called only for a key event whose ctrl, alt and
\* shift bits equal the bits the hotkey was registered with
C25_HotkeyModifiersMatch ==
    [][route'.base.type = "KEY" =>
           \A n \in 1 .. Len(HotkeyCalls(route'.calls)) :
               \E hk \in {wm.hotkeys[HotkeyCalls(route'.calls)[n]]} :
                   /\ hk.ctrl = route'.base.ctrl
                   /\ hk.alt = route'.base.alt
                   /\ hk.shift = route'.base.shift]_vars

(***************************************************************************)
(* Display width of the code points of the two-column ranges               *)
(***************************************************************************)
\* the ranges the documentation lists as two columns wide: first and last code point
DocWideRanges ==
    {<<4352, 4447>>,        \* 0x1100-0x115F
     <<11904, 40959>>,      \* 0x2E80-0x9FFF
     <<44032, 55203>>,      \* 0xAC00-0xD7A3
     <<63744, 64255>>,      \* 0xF900-0xFAFF
     <<65040, 65135>>,      \* 0xFE10-0xFE6F
     <<65280, 65376>>,      \* 0xFF00-0xFF60
     <<65504, 65510>>,      \* 0xFFE0-0xFFE6
     <<131072, 196605>>,    \* 0x20000-0x2FFFD
     <<196608, 262141>>,    \* 0x30000-0x3FFFD
     <<127744, 129535>>,    \* 0x1F300-0x1F9FF
     <<9728, 10175>>}       \* 0x2600-0x27BF

\* the same with the combining half marks 0xFE20-0xFE2F taken out of 0xFE10-0xFE6F
WideRanges ==
    (DocWideRanges \ {<<65040, 65135>>}) \cup {<<65040, 65055>>, <<65072, 65135>>}

InRanges(cp, ranges) == \E r \in ranges : r[1] <= cp /\ cp <= r[2]

\* the code points measured: those of the ranges and the two next to either end
WidthPoints == UNION {r[1] - 2 .. r[2] + 2 : r \in DocWideRanges}

\* hist.cp: the code point, hist.width: what tui_char_width returned for it, -1
\* before the call
InitWidth ==
    /\ HostIdle
    /\ \E cp \in WidthPoints : hist = [cp |-> cp, width |-> -1]
    /\ widgets = NoWidgets
    /\ wm = NoWm
    /\ route = NoRoute

CharWidth ==
    /\ hist.width = -1
    /\ hist' = [hist EXCEPT !.width = tui_char_width(hist.cp)]
    /\ UNCHANGED <<ctx, tty_in, tty_size, tui_sigwinch_received, term, out, events, fed,
                   lastPoll, chosen, widgets, wm, route>>

NextWidth == CharWidth

SpecWidth == InitWidth /\ [][NextWidth]_vars

\* C26 as stated: tui_char_width returns 2 for every code point of the ranges
\* listed as two columns wide
C26_DocRangesAreWide ==
    (hist.width # -1 /\ InRanges(hist.cp, DocWideRanges)) => hist.width = 2

\* C26: tui_char_width returns 2 for every code point of the listed ranges except
\* the combining half marks 0xFE20-0xFE2F, for which it returns 0
C26_RangesAreWide ==
    hist.width # -1 =>
        /\ InRanges(hist.cp, WideRanges) => hist.width = 2
        /\ (hist.cp >= 65056 /\ hist.cp <= 65071) => hist.width = 0

\* the last of the vertical forms, next to the first combining half mark, measured
C26_Witness == hist = [cp |-> 65055, width |-> 2]

(***************************************************************************)
(* The SGR state of the terminal while a frame is written                  *)
(***************************************************************************)
MaxPenCalls == 3    \* style, colour and drawing calls of a run

\* what a colour value selects: the default colour when bit 31 is set (a negative
\* number here), else the red, green and blue of its low 24 bits
SgrColor(color) == IF color < 0 THEN -1 ELSE color % 16777216

\* the SGR state after CSI 0 m: no style flag, default colours
SgrReset == [style |-> 0, fg |-> -1, bg |-> -1, underline_color |-> -1]

\* the SGR state a cell asks for
SgrOf(cell) ==
    [style |-> cell.style, fg |-> SgrColor(cell.fg), bg |-> SgrColor(cell.bg),
     underline_color |-> SgrColor(cell.underline_color)]

\* the terminal executes the sequences toks from the k-th on. st.sgr is its SGR
\* state, st.glyphs the number of glyphs it has shown, st.unstyled the cells of
\* written (the cells of the glyphs, in order) shown in a state other than theirs
RECURSIVE SgrApply(_, _, _, _, _)
SgrApply(st, toks, k, written, back) ==
    IF k > Len(toks) THEN st
    ELSE LET tk == toks[k]
             st1 ==
                 CASE tk.op = "RESET" -> [st EXCEPT !.sgr = SgrReset]
                   [] tk.op = "STYLE_ON" ->
                          [st EXCEPT !.sgr.style =
                              IF Bit(@, tk.a) = 1 THEN @ ELSE @ + 2 ^ tk.a]
                   [] tk.op = "FG" -> [st EXCEPT !.sgr.fg = SgrColor(tk.a)]
                   [] tk.op = "BG" -> [st EXCEPT !.sgr.bg = SgrColor(tk.a)]
                   [] tk.op = "UNDERLINE_COLOR" ->
                          [st EXCEPT !.sgr.underline_color = SgrColor(tk.a)]
                   [] tk.op = "GLYPH" ->
                          [st EXCEPT
                              !.glyphs = @ + 1,
                              !.unstyled =
                                  IF st.sgr = SgrOf(back[written[st.glyphs + 1]]) THEN @
                                  ELSE @ \cup {written[st.glyphs + 1]}]
                   [] OTHER -> st
         IN  Let(st1, LAMBDA st2 : SgrApply(st2, toks, k + 1, written, back))

PenStyles == {1, 255}

PenColors == {13369344, -1}

\* hist.sgr: the SGR state of the terminal, after tui_create that of CSI 0 m;
\* hist.unstyled: the cells the last frame showed in an SGR state other than theirs
InitSgr ==
    /\ tty_size = <<MaxW - 1, MaxH - 1>>
    /\ ctx = tui_create(tty_size)
    /\ tty_in = <<>>
    /\ tui_sigwinch_received = 0
    /\ term = TermInit
    /\ out = <<>>
    /\ events = <<>>
    /\ fed = <<>>
    /\ lastPoll = NoPoll
    /\ chosen = NoChoice
    /\ hist = [f \in DOMAIN HistInit \cup {"sgr", "unstyled"} |->
                  IF f = "sgr" THEN SgrReset
                  ELSE IF f = "unstyled" THEN {}
                  ELSE HistInit[f]]
    /\ widgets = NoWidgets
    /\ wm = NoWm
    /\ route = NoRoute

\* a style, colour or drawing call that left the context c
Pen(c) ==
    /\ hist.draws < MaxPenCalls
    /\ ctx' = c
    /\ hist' = [hist EXCEPT !.draws = @ + 1, !.frame_draws = @ + 1]
    /\ Idle

PenStyle == \E style \in PenStyles : Pen([ctx EXCEPT !.current_style = style])

PenFg == \E color \in PenColors : Pen([ctx EXCEPT !.current_fg = color])

PenBg == \E color \in PenColors : Pen([ctx EXCEPT !.current_bg = color])

PenUnderlineColor ==
    \E color \in PenColors : Pen([ctx EXCEPT !.current_underline_color = color])

PenSetCell == \E x \in {0, 1} : Pen(tui_set_cell(ctx, x, 0, 65))

EndFrameSgr ==
    /\ ctx.in_frame
    /\ \E r \in {tui_end_frame(ctx)} :
       \E st \in {SgrApply([sgr |-> hist.sgr, glyphs |-> 0, unstyled |-> {}],
                           r.out, 1, r.written, ctx.back_buffer)} :
           /\ ctx' = r.ctx
           /\ out' = r.out
           /\ term' = TermApply(term, r.out, 1, tty_size)
           /\ hist' = [hist EXCEPT
                  !.frames = @ + 1,
                  !.same_back = (hist.frames >= 1 /\ ctx.back_buffer = hist.last_back),
                  !.last_back = ctx.back_buffer,
                  !.front0 = r.front0,
                  !.written = r.written,
                  !.end_size = <<ctx.width, ctx.height>>,
                  !.sgr = st.sgr,
                  !.unstyled = st.unstyled]
    /\ UNCHANGED <<tty_in, tty_size, tui_sigwinch_received, events, fed, lastPoll,
                   chosen, widgets, wm, route>>

NextSgr ==
    \/ BeginFrame
    \/ PenStyle
    \/ PenFg
    \/ PenBg
    \/ PenUnderlineColor
    \/ PenSetCell
    \/ EndFrameSgr

SpecSgr == InitSgr /\ [][NextSgr]_vars

\* C27: whatever style byte and colours the cells have, tui_end_frame writes the
\* glyph of every dirty cell while the SGR state of the terminal, built up from all
\* sequences sent so far, is that cell's style, fg, bg and underline colour
C27_GlyphInCellStyle == hist.unstyled = {}
\* what the code keeps: a glyph shown in another SGR state than its cell's belongs to
\* a cell with all eight style flags, 0xFF
C27_StyledUnlessAllFlags == \A p \in hist.unstyled : hist.last_back[p].style = 255

(***************************************************************************)
(* Synchronized output                                                     *)
(***************************************************************************)
\* C28: all that tui_end_frame sends lies between one BEGIN_SYNC and the END_SYNC
\* that follows it: the output of a frame starts with BEGIN_SYNC, ends with END_SYNC
\* and has neither in between, in the first frame and after a resize too
C28_FrameInsideSync ==
    hist.frames >= 1 =>
        /\ Len(out) >= 2
        /\ out[1].op = "BEGIN_SYNC"
        /\ out[Len(out)].op = "END_SYNC"
        /\ \A k \in 2 .. Len(out) - 1 : out[k].op \notin {"BEGIN_SYNC", "END_SYNC"}

\* what the code keeps: the output of a frame that is no full redraw lies inside
\* the synchronized update; a full redraw sends reset, clear and home before it
C28_SyncAfterClear ==
    hist.frames >= 1 =>
        \E n \in {0, 3} :
            /\ Len(out) >= n + 2
            /\ n = 3 => <<out[1].op, out[2].op, out[3].op>> = <<"RESET", "CLEAR", "HOME">>
            /\ out[n + 1].op = "BEGIN_SYNC"
            /\ out[Len(out)].op = "END_SYNC"
            /\ \A k \in n + 2 .. Len(out) - 1 :
                   out[k].op \notin {"BEGIN_SYNC", "END_SYNC", "CLEAR", "HOME"}

(***************************************************************************)
(* Labels of several lines                                                 *)
(***************************************************************************)
MaxLabelLen == 4    \* bytes of the longest label text
MaxLabels == 1      \* tui_label calls of a run

\* the texts: letters and newlines
LabelTexts == UNION {[1 .. n -> {65, 66, 10}] : n \in 1 .. MaxLabelLen}

\* the host is inside its first frame; hist.call is the last tui_label call
InitLabel ==
    /\ tty_size \in Sizes
    /\ ctx = tui_begin_frame(tui_create(tty_size), tty_size)
    /\ tty_in = <<>>
    /\ tui_sigwinch_received = 0
    /\ term = TermInit
    /\ out = <<>>
    /\ events = <<>>
    /\ fed = <<>>
    /\ lastPoll = NoPoll
    /\ chosen = NoChoice
    /\ hist = [calls |-> 0, call |-> [x |-> 0, y |-> 0, text |-> <<>>]]
    /\ widgets = NoWidgets
    /\ wm = NoWm
    /\ route = NoRoute

LabelCall ==
    /\ hist.calls < MaxLabels
    /\ \E x \in {0, 1}, y \in {0}, text \in LabelTexts :
           /\ ctx' = tui_label(ctx, x, y, text)
           /\ hist' = [calls |-> hist.calls + 1,
                       call |-> [x |-> x, y |-> y, text |-> text]]
    /\ Idle

NextLabel == LabelCall

SpecLabel == InitLabel /\ [][NextLabel]_vars

\* the number of newlines before the k-th code point of text
DocRow(text, k) == Cardinality({j \in 1 .. k - 1 : text[j] = 10})

\* the number of code points between the last newline before the k-th and the k-th
DocColumn(text, k) ==
    LET breaks == {j \in 1 .. k - 1 : text[j] = 10}
    IN  IF breaks = {} THEN k - 1
        ELSE k - 1 - (CHOOSE j \in breaks : \A i \in breaks : i <= j)

\* C29: after tui_label(x, y, text) every printable code point of text that follows n
\* newlines stands on row y + n, as many columns right of x as code points precede
\* it on its line, when that cell is inside the visible rectangle
C29_NewlineReturnsToX ==
    hist.calls >= 1 =>
        \A k \in 1 .. Len(hist.call.text) :
            \E col \in {hist.call.x + DocColumn(hist.call.text, k)},
               row \in {hist.call.y + DocRow(hist.call.text, k)} :
                (hist.call.text[k] # 10 /\ col < ctx.width /\ row < ctx.height)
                    => ctx.back_buffer[<<col, row>>].codepoint = hist.call.text[k]

(***************************************************************************)
(* The drawing style at the start of a frame                               *)
(***************************************************************************)
\* C30: a tui_set_cell made after tui_begin_frame with no style or colour call in
\* between writes a cell whose fg, bg and underline colour select the default colour
\* and whose style has no flag, whatever was set before the frame began
C30_FrameStartsNeutral ==
    [][(ctx.in_frame /\ hist.frame_draws = 0) =>
           \A p \in Grid :
               ctx'.back_buffer[p] # ctx.back_buffer[p] =>
                   SgrOf(ctx'.back_buffer[p]) = SgrReset]_vars

\* what the code keeps: such a cell has default fg and bg and no style flag
C30_FrameStartsNeutralButUnderline ==
    [][(ctx.in_frame /\ hist.frame_draws = 0) =>
           \A p \in Grid :
               ctx'.back_buffer[p] # ctx.back_buffer[p] =>
                   [ctx'.back_buffer[p] EXCEPT !.underline_color = TUI_COLOR_DEFAULT]
                       = [tui_make_empty_cell EXCEPT !.codepoint = 65]]_vars

(***************************************************************************)
(* The Tab key and a focused textarea                                      *)
(***************************************************************************)
\* editable textareas of one line, empty or "ab", in line buffers of 5 and of 8 bytes
TabTextareas ==
    {[lines |-> <<first>>, line_count |-> 1, line_capacity |-> 1,
      cursor_row |-> 0, cursor_col |-> 0, scroll_row |-> 0,
      line_numbers |-> FALSE, editable |-> TRUE, max_line_len |-> max_line_len,
      heap |-> 1] :
        first \in StartLines, max_line_len \in {5, 8}}

TabEvents ==
    {KeyEvent(NoEvent, "TAB"), KeyEvent(NoEvent, "LEFT"), KeyEvent(NoEvent, "RIGHT"),
     [KeyEvent(NoEvent, "CHAR") EXCEPT !.ch = 120]}

InitTab ==
    \E t \in TabTextareas :
        InitWidget([tui_widget_create("TEXTAREA") EXCEPT
                       !.state = t, !.width = 8, !.height = 1])

TabEvent == \E event \in TabEvents : Deliver(event)

NextTab == TabEvent

SpecTab == InitTab /\ [][NextTab]_vars

\* C31: a Tab key routed while an editable textarea is focused, its current line
\* four characters short of full or shorter, puts four spaces at the cursor and
\* moves cursor_col by 4
C31_TabInsertsSpaces ==
    [][(/\ route'.base.type = "KEY"
        /\ route'.base.key = "TAB"
        /\ wm.focus = 1
        /\ widgets[1].state.editable
        /\ LineLen(widgets[1].state, 0) + 4 < widgets[1].state.max_line_len)
           => /\ widgets'[1].state.lines[1]
                     = LineInsert(widgets[1].state.lines[1], widgets[1].state.cursor_col,
                                  <<32, 32, 32, 32>>)
              /\ widgets'[1].state.cursor_col = widgets[1].state.cursor_col + 4]_vars

\* what the code does: a routed Tab key changes no widget
C31_TabChangesNothing ==
    [][(route'.base.type = "KEY" /\ route'.base.key = "TAB")
           => widgets' = widgets /\ wm'.focus = wm.focus]_vars

(***************************************************************************)
(* A dropdown beside a button: clicks inside, on and outside the open list *)
(***************************************************************************)
\* a root that covers the screen of the mouse reports and holds a dropdown of count
\* items, height rows high, made focusable, and a button to its right
DropdownTree(count, height) ==
    LET w0 == <<tui_widget_create("CONTAINER"),
                [tui_widget_create("DROPDOWN") EXCEPT
                    !.state.count = count, !.focusable = TRUE, !.tab_index = 0],
                tui_widget_create("BUTTON")>>
        w1 == tui_widget_set_bounds(w0, 1, 0, 0, MaxCoord + 1, MaxCoord + 1)
        w2 == tui_widget_set_bounds(w1, 2, 0, 0, 2, height)
        w3 == tui_widget_set_bounds(w2, 3, 2, 0, 1, 1)
        w4 == tui_widget_add_child(w3, 1, 2)
    IN  tui_widget_add_child(w4, 1, 3)

DropdownEvents ==
    {KeyEvent(NoEvent, k) : k \in {"ENTER", "ESC", "DOWN"}}
        \cup {[NoEvent EXCEPT !.type = "MOUSE", !.mouse_button = "LEFT",
                              !.mouse_x = x, !.mouse_y = y] :
                  x \in 0 .. MaxCoord, y \in 0 .. MaxCoord}

InitDropdown ==
    /\ HostIdle
    /\ \E count \in 1 .. 2, height \in 1 .. 2 : widgets = DropdownTree(count, height)
    /\ wm = [NoWm EXCEPT !.root = 1]
    /\ route = NoRoute
    /\ hist = HistInit

DropdownEvent == \E event \in DropdownEvents : Deliver(event)

NextDropdown == DropdownEvent

SpecDropdown == InitDropdown /\ [][NextDropdown]_vars

\* the rows the open list of dropdown w is drawn on: up to five, below its button
InOpenList(ws, w, x, y) ==
    /\ x >= AbsX(ws, w) /\ x < AbsX(ws, w) + ws[w].width
    /\ y - AbsY(ws, w) - 1 >= 0
    /\ y - AbsY(ws, w) - 1 < Min(ws[w].state.count, 5)

\* C32: a left click routed while the dropdown is open, at a point outside its open
\* list, leaves the dropdown closed
C32_ClickOutsideCloses ==
    [][(/\ route'.base.type = "MOUSE"
        /\ route'.base.mouse_button = "LEFT"
        /\ widgets[2].state.open
        /\ ~InOpenList(widgets, 2, route'.base.mouse_x, route'.base.mouse_y))
           => ~widgets'[2].state.open]_vars

\* what the code does: a click closes the open dropdown exactly when the dropdown is
\* the widget hit
C32_ClickOnDropdownCloses ==
    [][(/\ route'.base.type = "MOUSE"
        /\ route'.base.mouse_button = "LEFT"
        /\ widgets[2].state.open)
           => (widgets'[2].state.open <=> route'.target # 2)]_vars

(***************************************************************************)
(* A list whose selection starts inside its scrolled window                *)
(***************************************************************************)
InWindow(l) == l.scroll <= l.selected /\ l.selected < l.scroll + l.visible

InitListWindow ==
    \E l \in {l0 \in Lists : l0.visible >= 1 /\ InWindow(l0)} :
        InitWidget([tui_widget_create("LIST") EXCEPT
                       !.state = l, !.width = 1, !.height = MaxCoord + 1])

SpecListWindow == InitListWindow /\ [][NextList]_vars

\* C33: after an Up or Down key handled by a list with visible >= 1 the selection is
\* inside the scrolled window: scroll <= selected < scroll + visible
C33_SelectionInWindow ==
    [][(/\ route'.base.type = "KEY"
        /\ route'.base.key \in {"UP", "DOWN"}
        /\ widgets[1].state.visible >= 1)
           => InWindow(widgets'[1].state)]_vars

\* what the code does: Up and Down keep a selection inside the window that was inside
C33_KeysKeepWindow ==
    [][(/\ route'.base.type = "KEY"
        /\ route'.base.key \in {"UP", "DOWN"}
        /\ InWindow(widgets[1].state))
           => InWindow(widgets'[1].state)]_vars

(***************************************************************************)
(* A lone ESC byte, polls and frame boundaries                             *)
(***************************************************************************)
MaxPolls == 3       \* tui_poll_event calls of a run

NoEsc == <<-1, FALSE>>

InitEsc ==
    /\ tty_size = <<MaxW, MaxH>>
    /\ \E start \in RingStarts : ctx = CtxAt(tty_size, start)
    /\ tty_in = <<>>
    /\ fed = <<>>
    /\ chosen = NoChoice
    /\ tui_sigwinch_received = 0
    /\ term = TermInit
    /\ out = <<>>
    /\ events = <<>>
    /\ lastPoll = NoPoll
    \* polls: tui_poll_event calls so far; esc_at: the frame count and in_frame of
    \* the poll that first left a lone ESC in the ring, NoEsc when the ring has none
    /\ hist = [f \in DOMAIN HistInit \cup {"polls", "esc_at"} |->
                  IF f = "polls" THEN 0
                  ELSE IF f = "esc_at" THEN NoEsc
                  ELSE HistInit[f]]
    /\ widgets = NoWidgets
    /\ wm = NoWm
    /\ route = NoRoute

\* the host calls tui_poll_event
PollEsc ==
    /\ hist.polls < MaxPolls
    /\ \E r \in {tui_poll_event(ctx, tty_in, tui_sigwinch_received, tty_size)} :
        /\ ctx' = r.ctx
        /\ tty_in' = r.tty
        /\ tui_sigwinch_received' = r.latch
        /\ events' = IF r.ret = 1 THEN Append(events, r.event) ELSE events
        /\ lastPoll' = [ret |-> r.ret, event |-> r.event, head |-> r.head,
                        kept |-> r.kept,
                        n |-> Len(r.head) - tui_input_available(r.ctx),
                        reads |-> 0]
        /\ hist' = [hist EXCEPT
               !.polls = @ + 1,
               !.esc_at = IF RingHead(r.ctx) # <<27>> THEN NoEsc
                          ELSE IF @ = NoEsc THEN <<hist.frames, ctx.in_frame>>
                          ELSE @]
    /\ UNCHANGED <<tty_size, term, out, fed, chosen, widgets, wm, route>>

NextEsc == Feed \/ PollEsc \/ BeginFrame \/ EndFrame

SpecEsc == InitEsc /\ [][NextEsc]_vars

\* a tui_begin_frame or a tui_end_frame ran since a poll left the lone ESC in the ring
BoundaryPassed == hist.esc_at # NoEsc /\ <<hist.frames, ctx.in_frame>> # hist.esc_at

\* the byte does not continue an escape sequence: neither '[' nor 'O'
EndsEsc(b) == b \notin {91, 79}

\* C34: a poll that finds the lone ESC in the ring returns no event and consumes
\* nothing while no other byte has arrived and no frame boundary has passed; once a
\* byte has arrived (one that starts no CSI or SS3 sequence) or a frame boundary has
\* passed it returns the ESC key event and consumes the ESC byte alone
C34_LoneEscDelivered ==
    [][(/\ hist'.polls # hist.polls
        /\ RingHead(ctx) = <<27>>
        /\ Len(tty_in) <= 1
        /\ (tty_in # <<>> => EndsEsc(tty_in[1])))
           => IF tty_in = <<>> /\ ~BoundaryPassed
              THEN lastPoll'.ret = 0 /\ RingHead(ctx') = <<27>>
              ELSE /\ lastPoll'.ret = 1
                   /\ lastPoll'.event = KeyEvent(NoEvent, "ESC")
                   /\ lastPoll'.n = 1]_vars

\* what the code does: frame boundaries do not release the lone ESC; only a byte does
C34_LoneEscWaitsForByte ==
    [][(/\ hist'.polls # hist.polls
        /\ RingHead(ctx) = <<27>>
        /\ Len(tty_in) <= 1
        /\ (tty_in # <<>> => EndsEsc(tty_in[1])))
           => IF tty_in = <<>>
              THEN lastPoll'.ret = 0 /\ RingHead(ctx') = <<27>>
              ELSE /\ lastPoll'.ret = 1
                   /\ lastPoll'.event = KeyEvent(NoEvent, "ESC")
                   /\ lastPoll'.n = 1
                   /\ RingHead(ctx') = tty_in]_vars

(***************************************************************************)
(* Hit testing: widgets on one row that move, hide and overlap             *)
(***************************************************************************)
NoHit == [x |-> 0, y |-> 0, hit |-> -1]

\* a root container and two buttons: both children of the root, or the second a
\* child of the first; every widget one cell at the origin
HitTrees ==
    LET w0 == <<tui_widget_create("CONTAINER"), tui_widget_create("BUTTON"),
                tui_widget_create("BUTTON")>>
        w1 == tui_widget_set_bounds(w0, 1, 0, 0, 1, 1)
        w2 == tui_widget_set_bounds(w1, 2, 0, 0, 1, 1)
        w3 == tui_widget_set_bounds(w2, 3, 0, 0, 1, 1)
        w4 == tui_widget_add_child(w3, 1, 2)
    IN  {tui_widget_add_child(w4, 1, 3), tui_widget_add_child(w4, 2, 3)}

InitHit ==
    /\ HostIdle
    /\ widgets \in HitTrees
    /\ wm = [NoWm EXCEPT !.root = 1]
    /\ route = NoRoute
    /\ hist = NoHit

HitIdle == UNCHANGED <<ctx, tty_in, tty_size, tui_sigwinch_received, term, out, events,
                       fed, lastPoll, chosen, wm, route>>

\* tui_widget_set_bounds on one row
SetBounds ==
    \E w \in 1 .. 3, x \in 0 .. 1, width \in 1 .. 2 :
        /\ widgets' = tui_widget_set_bounds(widgets, w, x, 0, width, 1)
        /\ hist' = NoHit
        /\ HitIdle

\* the application writes the public field visible
SetVisible ==
    \E w \in 1 .. 3, visible \in BOOLEAN :
        /\ widgets' = [widgets EXCEPT ![w].visible = visible]
        /\ hist' = NoHit
        /\ HitIdle

HitTest ==
    \E x \in 0 .. MaxCoord + 1 :
        /\ hist' = [x |-> x, y |-> 0, hit |-> tui_wm_hit_test(widgets, wm, x, 0)]
        /\ widgets' = widgets
        /\ HitIdle

NextHit == SetBounds \/ SetVisible \/ HitTest

SpecHit == InitHit /\ [][NextHit]_vars

\* w and all its ancestors are visible
RECURSIVE Shown(_, _)
Shown(ws, w) == w = 0 \/ (ws[w].visible /\ Shown(ws, ws[w].parent))

\* the widgets drawn at (x, y): visible with all their ancestors, the point in their
\* absolute rectangle
ShownAt(ws, x, y) ==
    {w \in 1 .. Len(ws) : Shown(ws, w) /\ tui_widget_contains_point(ws, w, x, y)}

\* a visible child of w contains the point
ChildAt(ws, w, x, y) ==
    \E i \in 1 .. Len(ws[w].children) :
        /\ ws[ws[w].children[i]].visible
        /\ tui_widget_contains_point(ws, ws[w].children[i], x, y)

\* a sibling added after w is visible and contains the point
LaterSiblingAt(ws, w, x, y) ==
    /\ ws[w].parent # 0
    /\ \E i, j \in 1 .. Len(ws[ws[w].parent].children) :
           /\ ws[ws[w].parent].children[i] = w
           /\ j > i
           /\ ws[ws[ws[w].parent].children[j]].visible
           /\ tui_widget_contains_point(ws, ws[ws[w].parent].children[j], x, y)

\* C35: whenever a widget that is visible together with all its ancestors contains
\* the point, tui_wm_hit_test returns such a widget, no visible child of it contains
\* the point and no sibling added after it does
C35_HitDeepestVisible ==
    (hist.hit # -1 /\ ShownAt(widgets, hist.x, hist.y) # {})
        => /\ hist.hit \in ShownAt(widgets, hist.x, hist.y)
           /\ ~ChildAt(widgets, hist.hit, hist.x, hist.y)
           /\ ~LaterSiblingAt(widgets, hist.hit, hist.x, hist.y)

\* every ancestor of w contains the point
RECURSIVE Enclosed(_, _, _, _)
Enclosed(ws, w, x, y) ==
    w = 0 \/ (tui_widget_contains_point(ws, w, x, y) /\ Enclosed(ws, ws[w].parent, x, y))

\* what the code does: the same, among the widgets whose ancestors contain the point
\* too; a widget drawn outside an ancestor's rectangle is never returned
C35_HitDeepestEnclosed ==
    hist.hit # -1
        => LET at == {w \in ShownAt(widgets, hist.x, hist.y) :
                          Enclosed(widgets, w, hist.x, hist.y)}
           IN  IF at = {} THEN hist.hit = 0
               ELSE /\ hist.hit \in at
                    /\ ~ChildAt(widgets, hist.hit, hist.x, hist.y)
                    /\ ~LaterSiblingAt(widgets, hist.hit, hist.x, hist.y)

(***************************************************************************)
(* The cursor: tui_show_cursor inside and outside frames                   *)
(***************************************************************************)
MaxShows == 3       \* tui_show_cursor and drawing calls of a run

\* tui_show_cursor: [ctx, out], out the sequence it writes and flushes
tui_show_cursor(c, show) ==
    [ctx |-> [c EXCEPT !.cursor_visible = show],
     out |-> IF c.in_frame THEN <<>>
             ELSE IF show THEN <<Tok("SHOW_CURSOR", 0, 0)>>
             ELSE <<Tok("HIDE_CURSOR", 0, 0)>>]

\* the terminal's cursor visibility after the sequences toks, shown before them
CursorAfter(shown, toks) ==
    LET at == {i \in 1 .. Len(toks) : toks[i].op \in {"SHOW_CURSOR", "HIDE_CURSOR"}}
    IN  IF at = {} THEN shown
        ELSE toks[CHOOSE i \in at : \A j \in at : j <= i].op = "SHOW_CURSOR"

\* shown: the cursor visibility of the terminal; tui_create has hidden the cursor
CursorHist == [f \in DOMAIN HistInit \cup {"shown"} |->
                  IF f = "shown" THEN FALSE ELSE HistInit[f]]

InitShow ==
    /\ HostIdle
    /\ hist = CursorHist
    /\ widgets = NoWidgets
    /\ wm = NoWm
    /\ route = NoRoute

ShowCursorCall ==
    /\ hist.draws < MaxShows
    /\ \E show \in BOOLEAN :
       \E r \in {tui_show_cursor(ctx, show)} :
           /\ ctx' = r.ctx
           /\ out' = IF r.out = <<>> THEN out ELSE r.out
           /\ term' = TermApply(term, r.out, 1, tty_size)
           /\ hist' = [hist EXCEPT !.draws = @ + 1,
                                   !.shown = CursorAfter(@, r.out)]
    /\ UNCHANGED <<tty_in, tty_size, tui_sigwinch_received, events, fed, lastPoll,
                   chosen, widgets, wm, route>>

EndFrameCursor ==
    /\ ctx.in_frame
    /\ \E r \in {tui_end_frame(ctx)} :
           /\ ctx' = r.ctx
           /\ out' = r.out
           /\ term' = TermApply(term, r.out, 1, tty_size)
           /\ hist' = [hist EXCEPT
                  !.frames = @ + 1,
                  !.same_back = (hist.frames >= 1 /\ ctx.back_buffer = hist.last_back),
                  !.last_back = ctx.back_buffer,
                  !.front0 = r.front0,
                  !.written = r.written,
                  !.end_size = <<ctx.width, ctx.height>>,
                  !.end_cursor = <<ctx.cursor_visible, ctx.cursor_x, ctx.cursor_y>>,
                  !.shown = CursorAfter(@, r.out)]
    /\ UNCHANGED <<tty_in, tty_size, tui_sigwinch_received, events, fed, lastPoll,
                   chosen, widgets, wm, route>>

NextShow == BeginFrame \/ EndFrameCursor \/ ShowCursorCall \/ SetCell \/ SetCursor

SpecShow == InitShow /\ [][NextShow]_vars

\* C36: after every tui_end_frame the terminal shows the cursor exactly when
\* ctx->cursor_visible is set
C36_CursorAsRequested ==
    [][(ctx.in_frame /\ ~ctx'.in_frame) => hist'.shown = ctx'.cursor_visible]_vars

\* what the code does: tui_end_frame shows the cursor when cursor_visible is set and
\* leaves the terminal's cursor as it was when it is not
C36_EndFrameOnlyShows ==
    [][(ctx.in_frame /\ ~ctx'.in_frame)
           => hist'.shown = (ctx'.cursor_visible \/ hist.shown)]_vars

(***************************************************************************)
(* Modal focus scopes and routed events                                    *)
(***************************************************************************)
\* a Tab or an Enter key is routed
ModalKey ==
    \E key \in {"TAB", "ENTER"} :
        \E r \in {tui_wm_route_event(widgets, wm, KeyEvent(NoEvent, key))} :
            /\ widgets' = r.widgets
            /\ wm' = r.wm
            /\ hist' = FocusHist("key", 0, wm)
            /\ route' = r.we
            /\ UNCHANGED <<ctx, tty_in, tty_size, tui_sigwinch_received, term, out,
                           events, fed, lastPoll, chosen>>

NextModal == PushFocus \/ PopFocus \/ Click \/ ModalKey

SpecModal == InitFocus /\ [][NextModal]_vars

\* w is scope or a widget under it
RECURSIVE InScope(_, _, _)
InScope(ws, w, scope) ==
    w # 0 /\ (w = scope \/ InScope(ws, ws[w].parent, scope))

\* C37: while a focus scope is pushed the focus is null or a widget of the subtree of
\* the top scope, whatever events were routed
C37_FocusInsideScope ==
    wm.focus_stack # <<>>
        => wm.focus = 0 \/ InScope(widgets, wm.focus, wm.focus_stack[Len(wm.focus_stack)])

\* what the code does: routed keys keep the focus inside the top scope
C37_KeysStayInScope ==
    [][(hist'.op = "key" /\ wm.focus_stack # <<>> /\ C37_FocusInsideScope)
           => C37_FocusInsideScope']_vars

(***************************************************************************)
(* Enter in a textarea of several lines when malloc may fail               *)
(***************************************************************************)
SplitCapacity == 4      \* line_capacity of the textareas split here

\* editable textareas of two or three lines, the first empty or "ab", the others "b",
\* "c", with one free entry at least; malloc fails when heap is 0
SplitTextareas ==
    {[lines |-> [i \in 1 .. SplitCapacity |->
                    IF i = 1 THEN first
                    ELSE IF i <= line_count THEN <<96 + i>>
                    ELSE NullLine],
      line_count |-> line_count, line_capacity |-> SplitCapacity,
      cursor_row |-> 0, cursor_col |-> 0, scroll_row |-> 0,
      line_numbers |-> FALSE, editable |-> TRUE, max_line_len |-> MaxLineLen,
      heap |-> heap] :
        first \in StartLines, line_count \in 2 .. 3, heap \in 0 .. 1}

SplitEvents ==
    {KeyEvent(NoEvent, k) : k \in {"ENTER", "UP", "DOWN", "LEFT", "RIGHT", "BACKSPACE"}}

InitSplit ==
    \E t \in SplitTextareas :
        InitWidget([tui_widget_create("TEXTAREA") EXCEPT
                       !.state = t, !.width = MaxLineLen, !.height = 2])

SplitEvent == \E event \in SplitEvents : Deliver(event)

NextSplit == SplitEvent

SpecSplit == InitSplit /\ [][NextSplit]_vars

\* Enter reaches the split, and malloc has nothing to hand out
EnterNoMemory ==
    /\ route'.base.type = "KEY"
    /\ route'.base.key = "ENTER"
    /\ widgets[1].state.editable
    /\ widgets[1].state.line_count < widgets[1].state.line_capacity
    /\ widgets[1].state.heap <= 0

\* C38: when the Enter split cannot allocate the new line, line_count, the cursor and
\* every entry lines[0 .. line_count - 1] are as before the event
C38_FailedSplitChangesNothing ==
    [][EnterNoMemory =>
           LET t == widgets[1].state
               u == widgets'[1].state
           IN  /\ u.line_count = t.line_count
               /\ u.cursor_row = t.cursor_row
               /\ u.cursor_col = t.cursor_col
               /\ \A i \in 1 .. t.line_count : u.lines[i] = t.lines[i]]_vars

\* what the code does: the entries after the line below the cursor have moved down
\* by one before malloc is called, and stay there
C38_FailedSplitShifts ==
    [][EnterNoMemory =>
           LET t == widgets[1].state
               u == widgets'[1].state
           IN  /\ u.line_count = t.line_count
               /\ u.cursor_row = t.cursor_row
               /\ u.cursor_col = t.cursor_col
               /\ \A i \in 1 .. t.line_count + 1 :
                      u.lines[i] = IF i <= t.cursor_row + 2 THEN t.lines[i]
                                   ELSE t.lines[i - 1]]_vars

(***************************************************************************)
(* The input ring under long input: reads that fill it and wrap            *)
(***************************************************************************)
RunLen == 21        \* separators the terminal sends in one run
MaxRuns == 3        \* runs of a behaviour

MaxSingles == 2     \* other bytes of a behaviour

\* the terminal sends ESC or '['
FeedOne ==
    /\ Cardinality({i \in 1 .. Len(fed) : fed[i] # 59}) < MaxSingles
    /\ \E b \in {27, 91} :
        /\ tty_in' = Append(tty_in, b)
        /\ fed' = Append(fed, b)
    /\ UNCHANGED <<ctx, tty_size, tui_sigwinch_received, term, out, events, lastPoll,
                   chosen, hist, widgets, wm, route>>

\* the terminal sends a run of the parameter separator ';'
FeedRun ==
    /\ Cardinality({i \in 1 .. Len(fed) : fed[i] = 59}) < MaxRuns * RunLen
    /\ tty_in' = tty_in \o [i \in 1 .. RunLen |-> 59]
    /\ fed' = fed \o [i \in 1 .. RunLen |-> 59]
    /\ UNCHANGED <<ctx, tty_size, tui_sigwinch_received, term, out, events, lastPoll,
                   chosen, hist, widgets, wm, route>>

InitRing ==
    /\ tty_size = <<MaxW, MaxH>>
    /\ \E start \in RingStarts : ctx = CtxAt(tty_size, start)
    /\ tty_in = <<>>
    /\ fed = <<>>
    /\ chosen = NoChoice
    /\ tui_sigwinch_received = 0
    /\ term = TermInit
    /\ out = <<>>
    /\ events = <<>>
    /\ lastPoll = NoPoll
    /\ hist = HistInit
    /\ widgets = NoWidgets
    /\ wm = NoWm
    /\ route = NoRoute

NextRing == FeedOne \/ FeedRun \/ PollEvent

SpecRing == InitRing /\ [][NextRing]_vars

\* the bytes not yet consumed, oldest first: those in the ring, then those the tty holds
Unread(c, tty) == RingHead(c) \o tty

IsSuffix(s, t) == Len(s) <= Len(t) /\ s = SubSeq(t, Len(t) - Len(s) + 1, Len(t))

IsPrefix(s, t) == Len(s) <= Len(t) /\ s = SubSeq(t, 1, Len(s))

\* C39: over a read and the decoder call that follows it, input_start and input_end
\* stay in [0, 64), the read takes no more bytes than the ring has free (63 less the
\* unread ones), the decoder is given the unread bytes oldest first, consumes only
\* bytes it was given, and the bytes left unread are the rest in their order
C39_RingKeepsUnread ==
    [][fed' = fed =>
           /\ ctx'.input_start \in 0 .. TUI_INPUT_BUFFER_SIZE - 1
           /\ ctx'.input_end \in 0 .. TUI_INPUT_BUFFER_SIZE - 1
           /\ Len(tty_in) - Len(tty_in')
                  <= TUI_INPUT_BUFFER_SIZE - 1 - tui_input_available(ctx)
           /\ IsPrefix(lastPoll'.head, Unread(ctx, tty_in))
           /\ Len(lastPoll'.head) = tui_input_available(ctx) + Len(tty_in) - Len(tty_in')
           /\ Len(Unread(ctx, tty_in)) - Len(Unread(ctx', tty_in')) <= Len(lastPoll'.head)
           /\ IsSuffix(Unread(ctx', tty_in'), Unread(ctx, tty_in))]_vars

\* the ring holds 63 unread bytes across its wrap and the tty holds bytes the last
\* read had no room for
C39_Witness ==
    /\ tui_input_available(ctx) = TUI_INPUT_BUFFER_SIZE - 1
    /\ ctx.input_end < ctx.input_start
    /\ tty_in # <<>>
    /\ lastPoll.head = RingHead(ctx)

(***************************************************************************)
(* Typing into a textarea: every key and the mouse, handled directly       *)
(***************************************************************************)
MaxEditLen == 5     \* max_line_len of the textareas typed into
EditCapacity == 2   \* their line_capacity

\* editable textareas of one or two lines, each empty or "x", the cursor at the start
EditTextareas ==
    {[lines |-> [i \in 1 .. EditCapacity |->
                    IF i = 1 THEN first
                    ELSE IF i <= line_count THEN second
                    ELSE NullLine],
      line_count |-> line_count, line_capacity |-> EditCapacity,
      cursor_row |-> 0, cursor_col |-> 0, scroll_row |-> 0,
      line_numbers |-> FALSE, editable |-> TRUE, max_line_len |-> MaxEditLen,
      heap |-> heap] :
        first \in {<<>>, <<120>>}, second \in {<<>>, <<120>>},
        line_count \in 1 .. 2, heap \in 0 .. 1}

\* the keys, the characters 'x' and U+4E00, and a click on either row
EditEvents ==
    {KeyEvent(NoEvent, k) :
         k \in {"UP", "DOWN", "LEFT", "RIGHT", "HOME", "END", "PAGEUP", "PAGEDOWN",
                "BACKSPACE", "DELETE", "ENTER", "TAB", "SPACE"}}
    \cup {[KeyEvent(NoEvent, "CHAR") EXCEPT !.ch = ch] : ch \in {120, 19968}}
    \cup {[NoEvent EXCEPT !.type = "MOUSE", !.mouse_button = "LEFT",
                          !.mouse_x = 1, !.mouse_y = y] : y \in 0 .. 1}

InitEdit ==
    \E t \in EditTextareas :
        InitWidget([tui_widget_create("TEXTAREA") EXCEPT
                       !.state = t, !.width = MaxEditLen, !.height = 2])

CursorInText(t) ==
    /\ 0 <= t.cursor_row /\ t.cursor_row < t.line_count
    /\ 0 <= t.cursor_col /\ t.cursor_col <= LineLen(t, t.cursor_row)

\* the textarea handles the event as the target's default handler; what the handler
\* does once the cursor is past the end of its line depends on bytes no longer part
\* of any string and is not followed
HandleEdit ==
    /\ CursorInText(widgets[1].state)
    /\ \E event \in EditEvents :
       \E r \in {tui_widget_handle_textarea_input(
                     widgets, 1, [NoRoute EXCEPT !.base = event, !.target = 1,
                                                 !.phase = "TARGET"])} :
           widgets' = r.widgets
    /\ UNCHANGED <<ctx, tty_in, tty_size, tui_sigwinch_received, term, out, events,
                   fed, lastPoll, chosen, hist, wm, route>>

NextEdit == HandleEdit

SpecEdit == InitEdit /\ [][NextEdit]_vars

\* C40: after any sequence of events handled by an editable textarea that starts in
\* range, every line has at most max_line_len - 1 characters, the cursor is inside
\* the text and line_count is in [1, line_capacity]
C40_TextareaInRange ==
    LET t == widgets[1].state
    IN  /\ \A i \in 1 .. t.line_count : StrLen(t.lines[i]) <= t.max_line_len - 1
        /\ CursorInText(t)
        /\ 1 <= t.line_count /\ t.line_count <= t.line_capacity

\* what the code does: lines and line_count stay in range and so does cursor_row;
\* cursor_col gets one past the end of its line and no further before the next event
C40_OnlyColumnLeaves ==
    LET t == widgets[1].state
    IN  /\ \A i \in 1 .. t.line_count : StrLen(t.lines[i]) <= t.max_line_len - 1
        /\ 0 <= t.cursor_row /\ t.cursor_row < t.line_count
        /\ 0 <= t.cursor_col /\ t.cursor_col <= LineLen(t, t.cursor_row) + 1
        /\ 1 <= t.line_count /\ t.line_count <= t.line_capacity

====
